---- MODULE Spec2Model ----
(***************************************************************************)
(* Entity-to-triple mapping of corona-network-standard.                    *)
(*                                                                         *)
(* The entity classes and their to_rdf methods are those of                *)
(* src/src/corona_network_standard/models.py; the population loop is the   *)
(* one of generate_network_rdf in src/src/corona_network_standard/main.py, *)
(* and the VLAN class of that file (class "main.VLAN" below) is modelled   *)
(* next to the VLAN class of models.py.                                    *)
(*                                                                         *)
(* A Python str is a TLA+ string.  A str the code looks into character by  *)
(* character (the CIDR of a Subnet) is held as the sequence of its         *)
(* characters.  The rdflib Graph is the set of its triples; a triple is    *)
(* <<subject, predicate, object>> and each term is a record                *)
(* [kind, value, datatype].                                                *)
(***************************************************************************)
EXTENDS Integers, Sequences, FiniteSets, TLC

(***************************************************************************)
(* Bounds                                                                  *)
(***************************************************************************)
\* longest entity list handed to the population loop
MaxBatch == 3

(***************************************************************************)
(* Python values                                                           *)
(***************************************************************************)
\* None of an Optional[str] field: `if self.x:` is false for None and for ""
NoneStr == ""
\* None of an Optional[int] field (the ids and sizes of the model are >= 0)
NoneInt == -1
\* None held by a list-valued field: pydantic validates fields at construction
\* only, so an assignment made afterwards can leave None there
NoneList == <<NoneStr>>

Digits == <<"0", "1", "2", "3", "4", "5", "6", "7", "8", "9">>

\* str(n) of a non-negative int, and the {n} of an f-string
RECURSIVE str(_)
str(n) == IF n < 10 THEN Digits[n + 1] ELSE str(n \div 10) \o Digits[(n % 10) + 1]

\* "".join(cs): the str made of the characters cs
RECURSIVE join(_)
join(cs) == IF cs = <<>> THEN "" ELSE Head(cs) \o join(Tail(cs))

\* s.replace(old, new) for one-character old and new
str_replace(cs, old, new) == [i \in 1..Len(cs) |-> IF cs[i] = old THEN new ELSE cs[i]]

(***************************************************************************)
(* rdflib terms                                                            *)
(***************************************************************************)
URIRef(v) == [kind |-> "URIRef", value |-> v, datatype |-> ""]

NETWORK(name) == URIRef("http://www.example.org/network-ontology#" \o name)
EX(name) == URIRef("http://www.example.org/network-instance#" \o name)

RDF_type == URIRef("http://www.w3.org/1999/02/22-rdf-syntax-ns#type")
RDFS_label == URIRef("http://www.w3.org/2000/01/rdf-schema#label")
RDFS_comment == URIRef("http://www.w3.org/2000/01/rdf-schema#comment")
RDFS_subClassOf == URIRef("http://www.w3.org/2000/01/rdf-schema#subClassOf")
RDFS_Resource == URIRef("http://www.w3.org/2000/01/rdf-schema#Resource")
RDFS_range == URIRef("http://www.w3.org/2000/01/rdf-schema#range")
RDFS_domain == URIRef("http://www.w3.org/2000/01/rdf-schema#domain")
RDF_Property == URIRef("http://www.w3.org/1999/02/22-rdf-syntax-ns#Property")
XSD_integer == "http://www.w3.org/2001/XMLSchema#integer"
XSD_string == "http://www.w3.org/2001/XMLSchema#string"

\* Literal(s) of a str: a plain literal
Literal(s) == [kind |-> "Literal", value |-> s, datatype |-> ""]
\* Literal(s, datatype=dt)
LiteralTyped(s, dt) == [kind |-> "Literal", value |-> s, datatype |-> dt]
\* Literal(n) of an int: rdflib gives it the datatype xsd:integer
LiteralInt(n) == [kind |-> "Literal", value |-> str(n), datatype |-> XSD_integer]

\* a g.add that takes out the triple it finds in the graph
add_toggles(g, t) == IF t \in g THEN g \ {t} ELSE g \cup {t}

\* Graph.add: the store is a set of triples
add(g, t) == g \cup {t}

(***************************************************************************)
(* The entities the input lists are drawn from.  Each is a value the       *)
(* constructors of models.py (or, for class "main.VLAN", of main.py)       *)
(* accept; every Iface satisfies check_vlan_mode_consistency.              *)
(***************************************************************************)
\* Subnet whose id is its CIDR-derived name (the pattern of examples.py)
subnet_10_8 ==
    [cls |-> "Subnet", id |-> "Subnet_10_8", description |-> "Users",
     cidr |-> <<"1", "0", "/", "8">>]
\* Subnet with the same CIDR and another id (the id of test_subnet_rdf)
subnet_irrelevant ==
    [cls |-> "Subnet", id |-> "IrrelevantID", description |-> NoneStr,
     cidr |-> <<"1", "0", "/", "8">>]

vlan10 ==
    [cls |-> "VLAN", id |-> "VLAN10_obj", description |-> NoneStr,
     vlan_id |-> 10, name |-> "Users", has_subnet_ids |-> <<"Subnet_10_8">>]
\* VLAN with the same vlan_id and another id, naming the other Subnet
vlan10_b ==
    [cls |-> "VLAN", id |-> "VlanTen", description |-> "VLAN Desc",
     vlan_id |-> 10, name |-> NoneStr, has_subnet_ids |-> <<"IrrelevantID">>]

\* VLAN objects of main.py
main_vlan10 ==
    [cls |-> "main.VLAN", id |-> "VLAN10_obj", vlan_id |-> 10, name |-> "Users"]
main_vlan10_b ==
    [cls |-> "main.VLAN", id |-> "VlanTen", vlan_id |-> 10, name |-> NoneStr]

assign_1 ==
    [cls |-> "AddressAssignment", id |-> "Assign_1", description |-> NoneStr,
     ip_value |-> "10.0.0.1", on_subnet_id |-> "IrrelevantID"]

\* owned by R1 and listed by it, connected to L1 and listed by it
iface_r1 ==
    [cls |-> "Iface", id |-> "R1_Eth0", description |-> NoneStr, hw_status |-> "ON",
     has_address_assignments |-> <<assign_1>>,
     connected_to_link_id |-> "L1", belongs_to_node_id |-> "R1",
     port_mode |-> "UNCONFIGURED", access_vlan_id |-> NoneInt,
     allowed_vlan_ids |-> <<>>]
\* owned by Sw1 and connected to L1, neither of which lists it
iface_sw1 ==
    [cls |-> "Iface", id |-> "Sw1_G0", description |-> "Iface Desc", hw_status |-> "ON",
     has_address_assignments |-> <<>>,
     connected_to_link_id |-> "L1", belongs_to_node_id |-> "Sw1",
     port_mode |-> "TRUNK", access_vlan_id |-> NoneInt,
     allowed_vlan_ids |-> <<10, 20>>]
\* no owner and no link of its own; listed by H1 and by L2
iface_h1 ==
    [cls |-> "Iface", id |-> "H1_Eth0", description |-> NoneStr, hw_status |-> "OFF",
     has_address_assignments |-> <<>>,
     connected_to_link_id |-> NoneStr, belongs_to_node_id |-> NoneStr,
     port_mode |-> "ACCESS", access_vlan_id |-> 10,
     allowed_vlan_ids |-> <<>>]

link_1 ==
    [cls |-> "Link", id |-> "L1", description |-> "Link Desc", hw_status |-> "ON",
     bandwidth |-> 1000, technology |-> "Ethernet", cost |-> NoneInt,
     interface_ids |-> <<"R1_Eth0">>]
link_2 ==
    [cls |-> "Link", id |-> "L2", description |-> NoneStr, hw_status |-> "ABN",
     bandwidth |-> NoneInt, technology |-> NoneStr, cost |-> 5,
     interface_ids |-> <<"H1_Eth0">>]

\* R1 and Sw1 list each other as neighbors; H1 lists Sw1, Sw1 does not list H1
router_1 ==
    [cls |-> "Router", id |-> "R1", description |-> "Router Desc", hw_status |-> "ON",
     has_iface_ids |-> <<"R1_Eth0">>, has_neighbor_ids |-> <<"Sw1">>,
     routes_subnet_ids |-> <<"Subnet_10_8", "IrrelevantID">>]
switch_1 ==
    [cls |-> "Switch", id |-> "Sw1", description |-> NoneStr, hw_status |-> "ON",
     has_iface_ids |-> <<>>, has_neighbor_ids |-> <<"R1">>]
host_1 ==
    [cls |-> "Host", id |-> "H1", description |-> "Host Desc", hw_status |-> "ON",
     has_iface_ids |-> <<"H1_Eth0">>, has_neighbor_ids |-> <<"Sw1">>]
\* a plain Node that lists an interface another node owns
node_1 ==
    [cls |-> "Node", id |-> "node-1", description |-> NoneStr, hw_status |-> "ON",
     has_iface_ids |-> <<"Sw1_G0">>, has_neighbor_ids |-> <<>>]

\* a Host whose neighbor list was assigned None after construction: its
\* to_rdf raises TypeError at `for neighbor_id in self.has_neighbor_ids`
host_2 ==
    [cls |-> "Host", id |-> "H2", description |-> "Host 2", hw_status |-> "ON",
     has_iface_ids |-> <<"H2_Eth0">>, has_neighbor_ids |-> NoneList]

Universe ==
    <<subnet_10_8, subnet_irrelevant, vlan10, vlan10_b, main_vlan10, main_vlan10_b,
      assign_1, iface_r1, iface_sw1, iface_h1, link_1, link_2,
      router_1, switch_1, host_1, node_1>>

EntityIds == 1..Len(Universe)

\* the entity lists of length at most n
Lists(n) == UNION {[1..k -> EntityIds] : k \in 0..n}

(***************************************************************************)
(* to_uri                                                                  *)
(***************************************************************************)
\* BaseEntity.to_uri, inherited by every class but Subnet
BaseEntity_to_uri(self) == EX(self.id)

\* Subnet.to_uri left to the inherited BaseEntity.to_uri
Subnet_to_uri_by_id(self) == EX(self.id)

Subnet_to_uri(self) ==
    LET safe_cidr_id == str_replace(self.cidr, "/", "_")
    IN  EX("Subnet_" \o join(safe_cidr_id))

\* to_uri with a VLAN override that derives the name from vlan_id
to_uri_vlan_by_number(self) ==
    IF self.cls = "Subnet" THEN Subnet_to_uri(self)
    ELSE IF self.cls = "VLAN" THEN EX("VLAN" \o str(self.vlan_id))
    ELSE EX(self.id)

\* self.to_uri() as the method resolution of the class of self finds it
to_uri(self) ==
    IF self.cls = "Subnet" THEN Subnet_to_uri(self) ELSE BaseEntity_to_uri(self)

\* the subject VLAN.to_rdf of main.py computes (main.py has no to_uri)
main_VLAN_uri(self) == EX("VLAN" \o str(self.vlan_id))

(***************************************************************************)
(* to_rdf: the graph after self.to_rdf(g)                                  *)
(***************************************************************************)
\* if self.description: g.add((uri, RDFS.comment, Literal(self.description)))
add_comment(g, uri, self) ==
    IF self.description # NoneStr
    THEN add(g, <<uri, RDFS_comment, Literal(self.description)>>)
    ELSE g

\* for x_id in ids: g.add((subject, predicate, EX[x_id]))
RECURSIVE add_links(_, _, _, _)
add_links(g, subject, predicate, ids) ==
    IF ids = <<>> THEN g
    ELSE add_links(add(g, <<subject, predicate, EX(Head(ids))>>),
                   subject, predicate, Tail(ids))

VLAN_to_rdf(self, g) ==
    LET vlan_instance_uri == to_uri(self)
        g1 == add(g, <<vlan_instance_uri, RDF_type, NETWORK("VLAN")>>)
        g2 == add(g1, <<vlan_instance_uri, RDFS_label, Literal(self.id)>>)
        g3 == add_comment(g2, vlan_instance_uri, self)
        g4 == add(g3, <<vlan_instance_uri, NETWORK("vlanId"),
                        LiteralTyped(str(self.vlan_id), XSD_integer)>>)
        g5 == IF self.name # NoneStr
              THEN add(g4, <<vlan_instance_uri, NETWORK("vlanName"), Literal(self.name)>>)
              ELSE g4
    IN  add_links(g5, vlan_instance_uri, NETWORK("hasSubnet"), self.has_subnet_ids)

\* VLAN.to_rdf of main.py
main_VLAN_to_rdf(self, g) ==
    LET vlan_instance_uri == main_VLAN_uri(self)
        label == ("VLAN " \o str(self.vlan_id))
                 \o (IF self.name # NoneStr THEN " (" \o self.name \o ")" ELSE "")
        g1 == add(g, <<vlan_instance_uri, RDF_type, NETWORK("VLAN")>>)
        g2 == add(g1, <<vlan_instance_uri, RDFS_label, Literal(label)>>)
        g3 == add(g2, <<vlan_instance_uri, NETWORK("vlanId"), LiteralInt(self.vlan_id)>>)
    IN  IF self.name # NoneStr
        THEN add(g3, <<vlan_instance_uri, NETWORK("vlanName"), Literal(self.name)>>)
        ELSE g3

\* the Subnet labelled with its id, as the other kinds are
Subnet_to_rdf_labels_id(self, g) ==
    LET subnet_uri == to_uri(self)
        g1 == add(g, <<subnet_uri, RDF_type, NETWORK("Subnet")>>)
        g2 == add(g1, <<subnet_uri, RDFS_label, Literal(self.id)>>)
        g3 == add_comment(g2, subnet_uri, self)
    IN  add(g3, <<subnet_uri, NETWORK("subnetCidr"),
                  LiteralTyped(join(self.cidr), XSD_string)>>)

Subnet_to_rdf(self, g) ==
    LET subnet_uri == to_uri(self)
        g1 == add(g, <<subnet_uri, RDF_type, NETWORK("Subnet")>>)
        g2 == add(g1, <<subnet_uri, RDFS_label, Literal("Subnet " \o join(self.cidr))>>)
        g3 == add_comment(g2, subnet_uri, self)
    IN  add(g3, <<subnet_uri, NETWORK("subnetCidr"),
                  LiteralTyped(join(self.cidr), XSD_string)>>)

AddressAssignment_to_rdf(self, g) ==
    LET assignment_uri == to_uri(self)
        g1 == add(g, <<assignment_uri, RDF_type, NETWORK("AddressAssignment")>>)
        g2 == add(g1, <<assignment_uri, RDFS_label, Literal(self.id)>>)
        g3 == add_comment(g2, assignment_uri, self)
        g4 == add(g3, <<assignment_uri, NETWORK("ipValue"), Literal(self.ip_value)>>)
        subnet_uri == EX(self.on_subnet_id)
    IN  add(g4, <<assignment_uri, NETWORK("onSubnet"), subnet_uri>>)

\* for assignment in self.has_address_assignments: ...
RECURSIVE Iface_assignments(_, _, _)
Iface_assignments(g, iface_uri, assignments) ==
    IF assignments = <<>> THEN g
    ELSE LET assignment == Head(assignments)
             g1 == AddressAssignment_to_rdf(assignment, g)
             assignment_uri == to_uri(assignment)
             g2 == add(g1, <<iface_uri, NETWORK("hasAddressAssignment"), assignment_uri>>)
         IN  Iface_assignments(g2, iface_uri, Tail(assignments))

\* the loop leaving after its first VLAN
Iface_allowed_vlans_first(g, iface_uri, vlan_ids) ==
    IF vlan_ids = <<>> THEN g
    ELSE add(g, <<iface_uri, NETWORK("allowedVlan"),
                  EX(("VLAN" \o str(Head(vlan_ids))) \o "_obj")>>)

\* for vlan_id in self.allowed_vlan_ids: ...
RECURSIVE Iface_allowed_vlans(_, _, _)
Iface_allowed_vlans(g, iface_uri, vlan_ids) ==
    IF vlan_ids = <<>> THEN g
    ELSE LET vlan_instance_uri == EX(("VLAN" \o str(Head(vlan_ids))) \o "_obj")
         IN  Iface_allowed_vlans(add(g, <<iface_uri, NETWORK("allowedVlan"), vlan_instance_uri>>),
                                 iface_uri, Tail(vlan_ids))

\* the VLAN details written from the two fields, whatever the port mode
Iface_to_rdf_by_fields(self, g) ==
    LET iface_uri == to_uri(self)
        g1 == add(g, <<iface_uri, RDF_type, NETWORK("Iface")>>)
        g2 == add(g1, <<iface_uri, RDFS_label, Literal(self.id)>>)
        g3 == add_comment(g2, iface_uri, self)
        g4 == add(g3, <<iface_uri, NETWORK("HWStatus"), Literal(self.hw_status)>>)
        g5 == Iface_assignments(g4, iface_uri, self.has_address_assignments)
        g6 == IF self.connected_to_link_id # NoneStr
              THEN add(g5, <<iface_uri, NETWORK("ConnectedToLink"),
                             EX(self.connected_to_link_id)>>)
              ELSE g5
        g7 == IF self.belongs_to_node_id # NoneStr
              THEN add(g6, <<iface_uri, NETWORK("BelongsToNode"),
                             EX(self.belongs_to_node_id)>>)
              ELSE g6
        g8 == add(g7, <<iface_uri, NETWORK("portMode"), Literal(self.port_mode)>>)
        g9 == IF self.access_vlan_id # NoneInt
              THEN add(g8, <<iface_uri, NETWORK("accessVlan"),
                             EX(("VLAN" \o str(self.access_vlan_id)) \o "_obj")>>)
              ELSE g8
    IN  Iface_allowed_vlans(g9, iface_uri, self.allowed_vlan_ids)

Iface_to_rdf(self, g) ==
    LET iface_uri == to_uri(self)
        g1 == add(g, <<iface_uri, RDF_type, NETWORK("Iface")>>)
        g2 == add(g1, <<iface_uri, RDFS_label, Literal(self.id)>>)
        g3 == add_comment(g2, iface_uri, self)
        g4 == add(g3, <<iface_uri, NETWORK("HWStatus"), Literal(self.hw_status)>>)
        g5 == Iface_assignments(g4, iface_uri, self.has_address_assignments)
        g6 == IF self.connected_to_link_id # NoneStr
              THEN add(g5, <<iface_uri, NETWORK("ConnectedToLink"),
                             EX(self.connected_to_link_id)>>)
              ELSE g5
        g7 == IF self.belongs_to_node_id # NoneStr
              THEN add(g6, <<iface_uri, NETWORK("BelongsToNode"),
                             EX(self.belongs_to_node_id)>>)
              ELSE g6
        g8 == add(g7, <<iface_uri, NETWORK("portMode"), Literal(self.port_mode)>>)
    IN  IF self.port_mode = "ACCESS" /\ self.access_vlan_id # NoneInt
        THEN add(g8, <<iface_uri, NETWORK("accessVlan"),
                       EX(("VLAN" \o str(self.access_vlan_id)) \o "_obj")>>)
        ELSE IF self.port_mode = "TRUNK"
        THEN Iface_allowed_vlans(g8, iface_uri, self.allowed_vlan_ids)
        ELSE g8

Link_to_rdf(self, g) ==
    LET link_uri == to_uri(self)
        g1 == add(g, <<link_uri, RDF_type, NETWORK("Link")>>)
        g2 == add(g1, <<link_uri, RDFS_label, Literal(self.id)>>)
        g3 == add_comment(g2, link_uri, self)
        g4 == add(g3, <<link_uri, NETWORK("HWStatus"), Literal(self.hw_status)>>)
        g5 == IF self.bandwidth # NoneInt
              THEN add(g4, <<link_uri, NETWORK("Bandwidth"), LiteralInt(self.bandwidth)>>)
              ELSE g4
        g6 == IF self.technology # NoneStr
              THEN add(g5, <<link_uri, NETWORK("Technology"), Literal(self.technology)>>)
              ELSE g5
        g7 == IF self.cost # NoneInt
              THEN add(g6, <<link_uri, NETWORK("Cost"), LiteralInt(self.cost)>>)
              ELSE g6
    IN  add_links(g7, link_uri, NETWORK("hasInterface"), self.interface_ids)

\* Node_ifaces with the inverse withheld from an interface that already
\* belongs to any node: (iface_uri, BelongsToNode, None) in place of the triple
RECURSIVE Node_ifaces_any_owner(_, _, _)
Node_ifaces_any_owner(g, node_uri, iface_ids) ==
    IF iface_ids = <<>> THEN g
    ELSE LET iface_uri == EX(Head(iface_ids))
             g1 == add(g, <<node_uri, NETWORK("HasIFace"), iface_uri>>)
             g2 == IF \A t \in g1 : ~(t[1] = iface_uri /\ t[2] = NETWORK("BelongsToNode"))
                   THEN add(g1, <<iface_uri, NETWORK("BelongsToNode"), node_uri>>)
                   ELSE g1
         IN  Node_ifaces_any_owner(g2, node_uri, Tail(iface_ids))

\* Node_ifaces with the HasIFace link moved under the test for the inverse
RECURSIVE Node_ifaces_link_under_test(_, _, _)
Node_ifaces_link_under_test(g, node_uri, iface_ids) ==
    IF iface_ids = <<>> THEN g
    ELSE LET iface_uri == EX(Head(iface_ids))
             g2 == IF <<iface_uri, NETWORK("BelongsToNode"), node_uri>> \notin g
                   THEN add(add(g, <<node_uri, NETWORK("HasIFace"), iface_uri>>),
                            <<iface_uri, NETWORK("BelongsToNode"), node_uri>>)
                   ELSE g
         IN  Node_ifaces_link_under_test(g2, node_uri, Tail(iface_ids))

\* Node_ifaces with the test for the inverse negated
RECURSIVE Node_ifaces_test_negated(_, _, _)
Node_ifaces_test_negated(g, node_uri, iface_ids) ==
    IF iface_ids = <<>> THEN g
    ELSE LET iface_uri == EX(Head(iface_ids))
             g1 == add(g, <<node_uri, NETWORK("HasIFace"), iface_uri>>)
             g2 == IF <<iface_uri, NETWORK("BelongsToNode"), node_uri>> \in g1
                   THEN add(g1, <<iface_uri, NETWORK("BelongsToNode"), node_uri>>)
                   ELSE g1
         IN  Node_ifaces_test_negated(g2, node_uri, Tail(iface_ids))

\* for iface_id in self.has_iface_ids: the link and, if absent, its inverse
RECURSIVE Node_ifaces(_, _, _)
Node_ifaces(g, node_uri, iface_ids) ==
    IF iface_ids = <<>> THEN g
    ELSE LET iface_uri == EX(Head(iface_ids))
             g1 == add(g, <<node_uri, NETWORK("HasIFace"), iface_uri>>)
             g2 == IF <<iface_uri, NETWORK("BelongsToNode"), node_uri>> \notin g1
                   THEN add(g1, <<iface_uri, NETWORK("BelongsToNode"), node_uri>>)
                   ELSE g1
         IN  Node_ifaces(g2, node_uri, Tail(iface_ids))

\* Node_neighbors testing for the link it has just added in place of the mirror
RECURSIVE Node_neighbors_tests_link(_, _, _)
Node_neighbors_tests_link(g, node_uri, neighbor_ids) ==
    IF neighbor_ids = <<>> \/ neighbor_ids = NoneList THEN g
    ELSE LET neighbor_uri == EX(Head(neighbor_ids))
             g1 == add(g, <<node_uri, NETWORK("HasNeighbor"), neighbor_uri>>)
             g2 == IF <<node_uri, NETWORK("HasNeighbor"), neighbor_uri>> \notin g1
                   THEN add(g1, <<neighbor_uri, NETWORK("HasNeighbor"), node_uri>>)
                   ELSE g1
         IN  Node_neighbors_tests_link(g2, node_uri, Tail(neighbor_ids))

\* for neighbor_id in self.has_neighbor_ids: the link and, if absent, its mirror
RECURSIVE Node_neighbors(_, _, _)
Node_neighbors(g, node_uri, neighbor_ids) ==
    IF neighbor_ids = <<>> \/ neighbor_ids = NoneList THEN g
    ELSE LET neighbor_uri == EX(Head(neighbor_ids))
             g1 == add(g, <<node_uri, NETWORK("HasNeighbor"), neighbor_uri>>)
             g2 == IF <<neighbor_uri, NETWORK("HasNeighbor"), node_uri>> \notin g1
                   THEN add(g1, <<neighbor_uri, NETWORK("HasNeighbor"), node_uri>>)
                   ELSE g1
         IN  Node_neighbors(g2, node_uri, Tail(neighbor_ids))

\* The message of the exception self.to_rdf(g) raises, NoneStr if it returns:
\* iterating None raises TypeError before the loop body runs.
to_rdf_raises(self) ==
    IF self.cls \in {"Node", "Host", "Router", "Switch"}
            /\ self.has_neighbor_ids = NoneList
    THEN "'NoneType' object is not iterable"
    ELSE NoneStr

\* Node.to_rdf adds no rdf:type triple
Node_to_rdf(self, g) ==
    LET node_uri == to_uri(self)
        g1 == add(g, <<node_uri, RDFS_label, Literal(self.id)>>)
        g2 == add_comment(g1, node_uri, self)
        g3 == add(g2, <<node_uri, NETWORK("HWStatus"), Literal(self.hw_status)>>)
        g4 == Node_ifaces(g3, node_uri, self.has_iface_ids)
    IN  Node_neighbors(g4, node_uri, self.has_neighbor_ids)

Host_to_rdf(self, g) ==
    LET host_uri == to_uri(self)
    IN  Node_to_rdf(self, add(g, <<host_uri, RDF_type, NETWORK("Host")>>))

Router_to_rdf(self, g) ==
    LET router_uri == to_uri(self)
        g1 == Node_to_rdf(self, add(g, <<router_uri, RDF_type, NETWORK("Router")>>))
    IN  IF to_rdf_raises(self) # NoneStr THEN g1
        ELSE add_links(g1, router_uri, NETWORK("routesSubnet"), self.routes_subnet_ids)

Switch_to_rdf(self, g) ==
    LET switch_uri == to_uri(self)
    IN  Node_to_rdf(self, add(g, <<switch_uri, RDF_type, NETWORK("Switch")>>))

\* BaseEntity.to_rdf: the type is the name of the class
BaseEntity_to_rdf(self, g) ==
    LET entity_uri == to_uri(self)
        g1 == add(g, <<entity_uri, RDF_type, NETWORK(self.cls)>>)
        g2 == add(g1, <<entity_uri, RDFS_label, Literal(self.id)>>)
    IN  add_comment(g2, entity_uri, self)

\* HWNetEntity.to_rdf
HWNetEntity_to_rdf(self, g) ==
    LET entity_uri == to_uri(self)
        g1 == add(g, <<entity_uri, RDF_type, NETWORK(self.cls)>>)
        g2 == add(g1, <<entity_uri, RDFS_label, Literal(self.id)>>)
        g3 == add_comment(g2, entity_uri, self)
    IN  add(g3, <<entity_uri, NETWORK("HWStatus"), Literal(self.hw_status)>>)

\* entity.to_rdf(g): the method the class of the entity defines
to_rdf(self, g) ==
    CASE self.cls = "VLAN" -> VLAN_to_rdf(self, g)
      [] self.cls = "BaseEntity" -> BaseEntity_to_rdf(self, g)
      [] self.cls = "HWNetEntity" -> HWNetEntity_to_rdf(self, g)
      [] self.cls = "main.VLAN" -> main_VLAN_to_rdf(self, g)
      [] self.cls = "Subnet" -> Subnet_to_rdf(self, g)
      [] self.cls = "AddressAssignment" -> AddressAssignment_to_rdf(self, g)
      [] self.cls = "Iface" -> Iface_to_rdf(self, g)
      [] self.cls = "Link" -> Link_to_rdf(self, g)
      [] self.cls = "Node" -> Node_to_rdf(self, g)
      [] self.cls = "Host" -> Host_to_rdf(self, g)
      [] self.cls = "Router" -> Router_to_rdf(self, g)
      [] self.cls = "Switch" -> Switch_to_rdf(self, g)

\* a to_rdf that returns the node of the nominal id
to_rdf_returns_nominal(self) == EX(self.id)

\* the value entity.to_rdf(g) returns: each method ends with the return of
\* the uri it bound to self.to_uri() in its first statement (VLAN.to_rdf of
\* main.py: to EX[f"VLAN{self.vlan_id}"])
to_rdf_returns(self) ==
    IF self.cls = "main.VLAN" THEN main_VLAN_uri(self) ELSE to_uri(self)

(***************************************************************************)
(* State                                                                   *)
(***************************************************************************)
VARIABLES
    objects,    \* the entity objects in memory, by index
    entities,   \* the list handed to the loop, as indices into objects
    pc,         \* index of the entity the loop processes next
    graph,      \* g, the graph under construction
    errors,     \* the lines the loop has echoed to stderr
    iface_obj,  \* the Iface the last constructor call returned, NoIface if none
    call,       \* the last operation on an Iface and its arguments
    raised,     \* message of the exception the last operation raised, if any
    argv,       \* the arguments of the validate command
    vpc,        \* position of the validate command
    validation, \* <<conforms, results_text>> once validate() has returned
    output,     \* the lines the validate command has echoed
    exit_code,  \* status the validate command ended with, NoneInt while running
    runs,       \* the emission runs in progress, each with its own graph
    hw_obj,     \* the hardware entity the last constructor call returned
    hw_call     \* the last hardware constructor call and its arguments

vars == <<objects, entities, pc, graph, errors, iface_obj, call, raised,
          argv, vpc, validation, output, exit_code, runs, hw_obj, hw_call>>

iface_vars == <<iface_obj, call, raised>>
validate_vars == <<argv, vpc, validation, output, exit_code>>
populate_vars == <<objects, entities, pc, graph, errors>>
hw_vars == <<hw_obj, hw_call>>
other_vars == <<runs, hw_vars>>

\* no Iface object
NoIface ==
    [cls |-> NoneStr, id |-> NoneStr, description |-> NoneStr, hw_status |-> NoneStr,
     has_address_assignments |-> <<>>,
     connected_to_link_id |-> NoneStr, belongs_to_node_id |-> NoneStr,
     port_mode |-> NoneStr, access_vlan_id |-> NoneInt, allowed_vlan_ids |-> <<>>]

NoCall == [op |-> NoneStr, id |-> NoneStr, port_mode |-> NoneStr,
           access_vlan_id |-> NoneInt, allowed_vlan_ids |-> <<>>]

NoArgv == [data_graph_file |-> NoneStr, shapes_file |-> NoneStr,
           ontology_file |-> NoneStr]

\* no Iface is being built or assigned to
IfaceIdle == iface_obj = NoIface /\ call = NoCall /\ raised = NoneStr

\* no hardware entity
NoHW == [cls |-> NoneStr, id |-> NoneStr, hw_status |-> NoneStr]

NoHWCall == [cls |-> NoneStr, id |-> NoneStr, hw_status |-> NoneStr]

\* no hardware entity is being built
HWIdle == hw_obj = NoHW /\ hw_call = NoHWCall

\* no separate emission runs
RunsIdle == runs = <<>>

\* the validate command is not running
ValidateIdle ==
    /\ argv = NoArgv
    /\ vpc = NoneStr
    /\ validation = <<>>
    /\ output = <<>>
    /\ exit_code = NoneInt

(***************************************************************************)
(* generate_network_rdf: the population loop                               *)
(***************************************************************************)

\* "Define Ontology Structure in RDF": the triples generate_network_rdf adds
\* to the new graph before it populates it
OntologyStructure ==
    {<<NETWORK("NetEntity"), RDFS_subClassOf, RDFS_Resource>>,
     <<NETWORK("HWNetEntity"), RDFS_subClassOf, NETWORK("NetEntity")>>,
     <<NETWORK("SWNetEntity"), RDFS_subClassOf, NETWORK("NetEntity")>>,
     <<NETWORK("LogicalEntity"), RDFS_subClassOf, RDFS_Resource>>,
     <<NETWORK("Node"), RDFS_subClassOf, NETWORK("HWNetEntity")>>,
     <<NETWORK("Router"), RDFS_subClassOf, NETWORK("Node")>>,
     <<NETWORK("Host"), RDFS_subClassOf, NETWORK("Node")>>,
     <<NETWORK("Switch"), RDFS_subClassOf, NETWORK("Node")>>,
     <<NETWORK("Iface"), RDFS_subClassOf, NETWORK("HWNetEntity")>>,
     <<NETWORK("Link"), RDFS_subClassOf, NETWORK("HWNetEntity")>>,
     <<NETWORK("VLAN"), RDFS_subClassOf, NETWORK("LogicalEntity")>>,
     <<NETWORK("accessVlan"), RDFS_range, NETWORK("VLAN")>>,
     <<NETWORK("accessVlan"), RDFS_domain, NETWORK("Iface")>>,
     <<NETWORK("allowedVlan"), RDFS_range, NETWORK("VLAN")>>,
     <<NETWORK("allowedVlan"), RDFS_domain, NETWORK("Iface")>>}
    \cup {<<NETWORK(p), RDF_type, RDF_Property>> :
            p \in {"HasIFace", "BelongsToNode", "ConnectedToLink", "HasNeighbor",
                   "hasInterface", "accessVlan", "allowedVlan", "HWStatus", "Address",
                   "Bandwidth", "Technology", "Cost", "portMode", "vlanId", "vlanName"}}

\* The loop starts on the graph generate_network_rdf has prepared, or, as in
\* the to_rdf calls of tests/test_models.py, on an empty graph.
Init ==
    /\ objects = Universe
    /\ entities \in Lists(MaxBatch)
    /\ pc = 1
    /\ graph \in {{}, OntologyStructure}
    /\ errors = <<>>
    /\ RunsIdle
    /\ HWIdle
    /\ IfaceIdle
    /\ ValidateIdle

\* click.echo(f"Error processing entity {entity.id}: {e}", file=sys.stderr)
error_line(entity, e) == "Error processing entity " \o entity.id \o ": " \o e

\* the iteration with a to_rdf that empties the list of address assignments
\* of the Iface it has serialised
Populate_consumes(classes) ==
    /\ pc <= Len(entities)
    /\ objects[entities[pc]].cls \in classes
    /\ LET entity == objects[entities[pc]]
           e == to_rdf_raises(entity)
       IN  /\ graph' = to_rdf(entity, graph)
           /\ errors' = IF e # NoneStr THEN Append(errors, error_line(entity, e))
                         ELSE errors
           /\ objects' = IF entity.cls = "Iface"
                          THEN [objects EXCEPT ![entities[pc]].has_address_assignments = <<>>]
                          ELSE objects
    /\ pc' = pc + 1
    /\ UNCHANGED entities
    /\ UNCHANGED <<other_vars, iface_obj, call, raised, argv, vpc, validation, output, exit_code>>

\* the iteration without the try: the exception leaves the loop
Populate_propagates(classes) ==
    /\ pc <= Len(entities)
    /\ objects[entities[pc]].cls \in classes
    /\ LET entity == objects[entities[pc]]
           e == to_rdf_raises(entity)
       IN  /\ graph' = to_rdf(entity, graph)
           /\ errors' = IF e # NoneStr THEN Append(errors, error_line(entity, e))
                         ELSE errors
           /\ pc' = IF e # NoneStr THEN Len(entities) + 1 ELSE pc + 1
    /\ UNCHANGED <<objects, entities>>
    /\ UNCHANGED <<other_vars, iface_obj, call, raised, argv, vpc, validation, output, exit_code>>

\* the iteration holding a node back until the loop has emitted every
\* neighbor the node names
Populate_awaits_neighbors(classes) ==
    /\ pc <= Len(entities)
    /\ objects[entities[pc]].cls \in classes
    /\ LET entity == objects[entities[pc]]
           e == to_rdf_raises(entity)
       IN  /\ entity.cls \in {"Node", "Host", "Router", "Switch"} /\ e = NoneStr =>
                \A n \in 1..Len(entity.has_neighbor_ids) :
                    \E i \in 1..(pc - 1) :
                        objects[entities[i]].id = entity.has_neighbor_ids[n]
           /\ graph' = to_rdf(entity, graph)
           /\ errors' = IF e # NoneStr THEN Append(errors, error_line(entity, e))
                         ELSE errors
    /\ pc' = pc + 1
    /\ UNCHANGED <<objects, entities>>
    /\ UNCHANGED <<other_vars, iface_vars, validate_vars>>

\* the iteration taking back what a to_rdf that raised had added
Populate_rolls_back(classes) ==
    /\ pc <= Len(entities)
    /\ objects[entities[pc]].cls \in classes
    /\ LET entity == objects[entities[pc]]
           e == to_rdf_raises(entity)
       IN  /\ graph' = IF e # NoneStr THEN graph ELSE to_rdf(entity, graph)
           /\ errors' = IF e # NoneStr THEN Append(errors, error_line(entity, e))
                         ELSE errors
    /\ pc' = pc + 1
    /\ UNCHANGED <<objects, entities>>
    /\ UNCHANGED <<other_vars, iface_vars, validate_vars>>

\* One iteration of `for entity in entities: try: entity.to_rdf(g) except
\* Exception as e: click.echo(...)` on an entity of one of the classes in
\* classes.  The triples to_rdf added before it raised stay in the graph; the
\* loop goes on to the next entity in either case.
Populate(classes) ==
    /\ pc <= Len(entities)
    /\ objects[entities[pc]].cls \in classes
    /\ LET entity == objects[entities[pc]]
           e == to_rdf_raises(entity)
       IN  /\ graph' = to_rdf(entity, graph)
           /\ errors' = IF e # NoneStr THEN Append(errors, error_line(entity, e))
                         ELSE errors
    /\ pc' = pc + 1
    /\ UNCHANGED <<objects, entities>>
    /\ UNCHANGED <<other_vars, iface_vars, validate_vars>>

PopulateVLAN == Populate({"VLAN"})
PopulateMainVLAN == Populate({"main.VLAN"})
PopulateSubnet == Populate({"Subnet"})
PopulateAddressAssignment == Populate({"AddressAssignment"})
PopulateIface == Populate({"Iface"})
PopulateLink == Populate({"Link"})
PopulateNode == Populate({"Node", "Host", "Router", "Switch"})

Next ==
    \/ PopulateVLAN
    \/ PopulateMainVLAN
    \/ PopulateSubnet
    \/ PopulateAddressAssignment
    \/ PopulateIface
    \/ PopulateLink
    \/ PopulateNode

Spec == Init /\ [][Next]_vars

\* The loop is a for statement over a list in memory: it waits for nothing,
\* so an iteration that can be taken is taken.
SpecFair == Spec /\ WF_vars(Next)

\* The loop on a list that may hold an entity whose to_rdf raises.
InitIsolation ==
    /\ objects = Append(Universe, host_2)
    /\ entities \in UNION {[1..k -> 1..(Len(Universe) + 1)] : k \in 0..MaxBatch}
    /\ pc = 1
    /\ graph \in {{}, OntologyStructure}
    /\ errors = <<>>
    /\ RunsIdle
    /\ HWIdle
    /\ IfaceIdle
    /\ ValidateIdle

SpecIsolation == InitIsolation /\ [][Next]_vars

\* the whole loop over the list es, started on graph g
RECURSIVE populate(_, _)
populate(es, g) ==
    IF es = <<>> THEN g ELSE populate(Tail(es), to_rdf(Universe[Head(es)], g))

(***************************************************************************)
(* Iface: construction and attribute assignment                            *)
(***************************************************************************)
\* PydanticLiteral["ACCESS", "TRUNK", "UNCONFIGURED"]
PortModes == {"ACCESS", "TRUNK", "UNCONFIGURED"}

\* the arguments the constructor calls and the assignments are drawn from
IfaceIdInputs == {"if-acc", "if-trunk"}
PortModeInputs == PortModes \cup {"HYBRID"}
AccessVlanInputs == {NoneInt, 0, 10}
AllowedVlanInputs == {<<>>, <<20>>, <<10, 20>>, <<20, 20>>}

\* the text of the ValueError the validator raises
conflict(field, mode, id) ==
    field \o " cannot be set when port_mode is " \o mode
          \o " (Interface ID: " \o id \o ")"

\* the validator with `if access_vlan:` in place of `is not None`
check_vlan_mode_consistency_truthy(self) ==
    LET mode == self.port_mode
        access_vlan == self.access_vlan_id
        allowed_vlans == self.allowed_vlan_ids
    IN  IF mode = "ACCESS"
        THEN IF allowed_vlans # <<>>
             THEN conflict("allowed_vlan_ids", "ACCESS", self.id) ELSE NoneStr
        ELSE IF mode = "TRUNK"
        THEN IF access_vlan # NoneInt /\ access_vlan # 0
             THEN conflict("access_vlan_id", "TRUNK", self.id) ELSE NoneStr
        ELSE IF access_vlan # NoneInt /\ access_vlan # 0
             THEN conflict("access_vlan_id", mode, self.id)
        ELSE IF allowed_vlans # <<>>
             THEN conflict("allowed_vlan_ids", mode, self.id)
        ELSE NoneStr

\* the validator with the two tests of its else branch in the other order
check_vlan_mode_consistency_allowed_first(self) ==
    LET mode == self.port_mode
        access_vlan == self.access_vlan_id
        allowed_vlans == self.allowed_vlan_ids
    IN  IF mode = "ACCESS"
        THEN IF allowed_vlans # <<>>
             THEN conflict("allowed_vlan_ids", "ACCESS", self.id) ELSE NoneStr
        ELSE IF mode = "TRUNK"
        THEN IF access_vlan # NoneInt
             THEN conflict("access_vlan_id", "TRUNK", self.id) ELSE NoneStr
        ELSE IF allowed_vlans # <<>>
             THEN conflict("allowed_vlan_ids", mode, self.id)
        ELSE IF access_vlan # NoneInt
             THEN conflict("access_vlan_id", mode, self.id)
        ELSE NoneStr

\* @model_validator(mode="after"): the message of the ValueError it raises,
\* NoneStr when it returns self
check_vlan_mode_consistency(self) ==
    LET mode == self.port_mode
        access_vlan == self.access_vlan_id
        allowed_vlans == self.allowed_vlan_ids
    IN  IF mode = "ACCESS"
        THEN IF allowed_vlans # <<>>
             THEN conflict("allowed_vlan_ids", "ACCESS", self.id) ELSE NoneStr
        ELSE IF mode = "TRUNK"
        THEN IF access_vlan # NoneInt
             THEN conflict("access_vlan_id", "TRUNK", self.id) ELSE NoneStr
        ELSE IF access_vlan # NoneInt
             THEN conflict("access_vlan_id", mode, self.id)
        ELSE IF allowed_vlans # <<>>
             THEN conflict("allowed_vlan_ids", mode, self.id)
        ELSE NoneStr

\* the fields of Iface(id=, port_mode=, access_vlan_id=, allowed_vlan_ids=),
\* the others at their defaults
Iface_fields(id, port_mode, access_vlan_id, allowed_vlan_ids) ==
    [cls |-> "Iface", id |-> id, description |-> NoneStr, hw_status |-> "ON",
     has_address_assignments |-> <<>>,
     connected_to_link_id |-> NoneStr, belongs_to_node_id |-> NoneStr,
     port_mode |-> port_mode, access_vlan_id |-> access_vlan_id,
     allowed_vlan_ids |-> allowed_vlan_ids]

\* What the constructor raises: the field validation of port_mode comes
\* first, then the model validator runs on the fields.
Iface_raises(fields) ==
    IF fields.port_mode \notin PortModes
    THEN "Input should be 'ACCESS', 'TRUNK' or 'UNCONFIGURED'"
    ELSE check_vlan_mode_consistency(fields)

InitIface ==
    /\ objects = Universe
    /\ entities = <<>>
    /\ pc = 1
    /\ graph = {}
    /\ errors = <<>>
    /\ RunsIdle
    /\ HWIdle
    /\ IfaceIdle
    /\ ValidateIdle

\* Iface(id=..., port_mode=..., access_vlan_id=..., allowed_vlan_ids=...)
IfaceConstruct ==
    \E id \in IfaceIdInputs, port_mode \in PortModeInputs,
       access_vlan_id \in AccessVlanInputs, allowed_vlan_ids \in AllowedVlanInputs :
        LET fields == Iface_fields(id, port_mode, access_vlan_id, allowed_vlan_ids)
        IN  /\ call' = [op |-> "Iface", id |-> id, port_mode |-> port_mode,
                        access_vlan_id |-> access_vlan_id,
                        allowed_vlan_ids |-> allowed_vlan_ids]
            /\ raised' = Iface_raises(fields)
            /\ iface_obj' = IF Iface_raises(fields) = NoneStr THEN fields ELSE NoIface
            /\ UNCHANGED <<other_vars, populate_vars, validate_vars>>

\* iface.port_mode = value: the models set no validate_assignment, so the
\* value is stored and no validator runs
IfaceSetPortMode ==
    /\ iface_obj # NoIface
    /\ \E value \in PortModeInputs :
        /\ iface_obj' = [iface_obj EXCEPT !.port_mode = value]
        /\ call' = [NoCall EXCEPT !.op = "port_mode", !.id = iface_obj.id,
                                  !.port_mode = value]
    /\ raised' = NoneStr
    /\ UNCHANGED <<other_vars, populate_vars, validate_vars>>

\* iface.access_vlan_id = value
IfaceSetAccessVlan ==
    /\ iface_obj # NoIface
    /\ \E value \in AccessVlanInputs :
        /\ iface_obj' = [iface_obj EXCEPT !.access_vlan_id = value]
        /\ call' = [NoCall EXCEPT !.op = "access_vlan_id", !.id = iface_obj.id,
                                  !.access_vlan_id = value]
    /\ raised' = NoneStr
    /\ UNCHANGED <<other_vars, populate_vars, validate_vars>>

\* iface.allowed_vlan_ids = value
IfaceSetAllowedVlans ==
    /\ iface_obj # NoIface
    /\ \E value \in AllowedVlanInputs :
        /\ iface_obj' = [iface_obj EXCEPT !.allowed_vlan_ids = value]
        /\ call' = [NoCall EXCEPT !.op = "allowed_vlan_ids", !.id = iface_obj.id,
                                  !.allowed_vlan_ids = value]
    /\ raised' = NoneStr
    /\ UNCHANGED <<other_vars, populate_vars, validate_vars>>

\* uri = iface.to_rdf(empty_graph): one emission of the Iface into a graph
\* that holds nothing
IfaceEmit ==
    /\ iface_obj # NoIface
    /\ graph' = to_rdf(iface_obj, {})
    /\ call' = [NoCall EXCEPT !.op = "to_rdf", !.id = iface_obj.id]
    /\ raised' = NoneStr
    /\ UNCHANGED <<iface_obj, objects, entities, pc, errors, other_vars, validate_vars>>

NextIface ==
    \/ IfaceConstruct
    \/ IfaceSetPortMode
    \/ IfaceSetAccessVlan
    \/ IfaceSetAllowedVlans
    \/ IfaceEmit

SpecIface == InitIface /\ [][NextIface]_vars

(***************************************************************************)
(* Hardware entities: construction with a status, and emission             *)
(***************************************************************************)
\* PydanticLiteral["ON", "OFF", "ABN"]
HWStatuses == {"ON", "OFF", "ABN"}

HWClasses == {"HWNetEntity", "Iface", "Link", "Node", "Host", "Router", "Switch"}

\* the arguments the constructor calls are drawn from; NoneStr is a call
\* that gives no hw_status
HWIdInputs == {"hw-1", "hw-2"}
HWStatusInputs == {NoneStr, "ON", "OFF", "ABN", "ABNORMAL", "INVALID"}

\* the field validation of hw_status with ABNORMAL in the place of ABN
hw_status_raises_abnormal(value) ==
    IF value \notin {"ON", "OFF", "ABNORMAL"}
    THEN "Input should be 'ON', 'OFF' or 'ABNORMAL'" ELSE NoneStr

\* the field validation of hw_status: the message of the ValidationError
hw_status_raises(value) ==
    IF value \notin HWStatuses THEN "Input should be 'ON', 'OFF' or 'ABN'" ELSE NoneStr

\* the fields of cls(id=, hw_status=), the others at their defaults
HW_fields(cls, id, hw_status) ==
    CASE cls = "HWNetEntity" ->
            [cls |-> cls, id |-> id, description |-> NoneStr, hw_status |-> hw_status]
      [] cls = "Iface" ->
            [Iface_fields(id, "UNCONFIGURED", NoneInt, <<>>) EXCEPT !.hw_status = hw_status]
      [] cls = "Link" ->
            [cls |-> cls, id |-> id, description |-> NoneStr, hw_status |-> hw_status,
             bandwidth |-> NoneInt, technology |-> NoneStr, cost |-> NoneInt,
             interface_ids |-> <<>>]
      [] cls \in {"Node", "Host", "Switch"} ->
            [cls |-> cls, id |-> id, description |-> NoneStr, hw_status |-> hw_status,
             has_iface_ids |-> <<>>, has_neighbor_ids |-> <<>>]
      [] cls = "Router" ->
            [cls |-> cls, id |-> id, description |-> NoneStr, hw_status |-> hw_status,
             has_iface_ids |-> <<>>, has_neighbor_ids |-> <<>>,
             routes_subnet_ids |-> <<>>]

InitHW ==
    /\ objects = Universe
    /\ entities = <<>>
    /\ pc = 1
    /\ graph = {}
    /\ errors = <<>>
    /\ RunsIdle
    /\ HWIdle
    /\ IfaceIdle
    /\ ValidateIdle

\* cls(id=...) or cls(id=..., hw_status=...), with a new empty graph at hand
HWConstruct ==
    \E cls \in HWClasses, id \in HWIdInputs, given \in HWStatusInputs :
        LET hw_status == IF given = NoneStr THEN "ON" ELSE given
        IN  /\ hw_call' = [cls |-> cls, id |-> id, hw_status |-> given]
            /\ raised' = hw_status_raises(hw_status)
            /\ hw_obj' = IF hw_status_raises(hw_status) = NoneStr
                         THEN HW_fields(cls, id, hw_status) ELSE NoHW
            /\ graph' = {}
            /\ UNCHANGED <<objects, entities, pc, errors, runs, iface_obj, call,
                           validate_vars>>

\* entity.to_rdf(empty_graph)
HWEmit ==
    /\ hw_obj.cls # NoneStr
    /\ graph = {}
    /\ graph' = to_rdf(hw_obj, graph)
    /\ UNCHANGED <<objects, entities, pc, errors, runs, hw_vars, iface_vars,
                   validate_vars>>

NextHW ==
    \/ HWConstruct
    \/ HWEmit

SpecHW == InitHW /\ [][NextHW]_vars

(***************************************************************************)
(* validate_network_rdf: the validate command                              *)
(***************************************************************************)
\* The files the command can be pointed at: a well-formed Turtle file, one
\* that is not Turtle, and a path where there is no file.  NoneStr stands for
\* an option that is not given.
DataGraphFiles == {"network-data.ttl", "malformed.ttl", "missing.ttl"}
ShapesFiles == {NoneStr, "shapes.ttl", "malformed.ttl", "missing.ttl"}
OntologyFiles == {NoneStr, "ontology.ttl", "malformed.ttl"}

\* What pyshacl's validate() can do: return (conforms, results_graph,
\* results_text), or raise.
OracleOutcomes ==
    {[raises |-> NoneStr, conforms |-> TRUE,
      results_text |-> "Validation Report\nConforms: True\n"],
     [raises |-> NoneStr, conforms |-> FALSE,
      results_text |-> "Validation Report\nConforms: False\nResults (1): MinCount"],
     [raises |-> NoneStr, conforms |-> FALSE,
      results_text |-> "Validation Report\nConforms: False\nResults (2): Class, Datatype"],
     [raises |-> "ReportableRuntimeError", conforms |-> FALSE, results_text |-> NoneStr]}

\* get_resource_path(package, resource), the packaged file being in place
get_resource_path(package, resource) == package \o "/" \o resource

\* shacl_graph_path
shacl_graph_path(a) ==
    IF a.shapes_file # NoneStr THEN a.shapes_file
    ELSE get_resource_path("corona_network_standard.data.shapes", "network-shapes.ttl")

\* ont_graph_path
ont_graph_path(a) ==
    IF a.ontology_file # NoneStr THEN a.ontology_file
    ELSE get_resource_path("corona_network_standard.data.ontology", "network-ontology.ttl")

\* the lines echoed while the two paths are determined
path_lines(a) ==
    (IF a.shapes_file # NoneStr THEN <<>>
     ELSE <<"Using packaged shapes file: " \o shacl_graph_path(a)>>)
    \o (IF a.ontology_file # NoneStr THEN <<>>
        ELSE <<"Using packaged ontology file for inference: " \o ont_graph_path(a)>>)

\* Graph().parse(path, format="turtle"): the message of what it raises,
\* NoneStr if it returns the graph
parse_raises(path) ==
    IF path = "malformed.ttl" THEN "Bad syntax at line 1 of <malformed.ttl>"
    ELSE IF path = "missing.ttl" THEN "[Errno 2] No such file or directory: 'missing.ttl'"
    ELSE NoneStr

\* the three parse calls in their order: the first exception, if any
load_raises(a) ==
    IF parse_raises(a.data_graph_file) # NoneStr THEN parse_raises(a.data_graph_file)
    ELSE IF parse_raises(shacl_graph_path(a)) # NoneStr
    THEN parse_raises(shacl_graph_path(a))
    ELSE parse_raises(ont_graph_path(a))

InitValidate ==
    /\ objects = Universe
    /\ entities = <<>>
    /\ pc = 1
    /\ graph = {}
    /\ errors = <<>>
    /\ RunsIdle
    /\ HWIdle
    /\ IfaceIdle
    /\ argv \in [data_graph_file : DataGraphFiles, shapes_file : ShapesFiles,
                 ontology_file : OntologyFiles]
    /\ vpc = "arguments"
    /\ validation = <<>>
    /\ output = <<>>
    /\ exit_code = NoneInt

\* except Exception as e: click.secho(f"Error during validation: {e}"); sys.exit(1)
ValidateError(e) ==
    /\ raised' = e
    /\ output' = Append(output, "Error during validation: " \o e)
    /\ exit_code' = 1
    /\ vpc' = "exit"

\* click.Path(exists=True, dir_okay=False): click refuses a data graph file
\* that does not exist with a usage error and status 2, before the body runs.
ValidateArguments ==
    /\ vpc = "arguments"
    /\ IF argv.data_graph_file = "missing.ttl"
       THEN /\ raised' = "Invalid value for 'DATA_GRAPH_FILE': File 'missing.ttl' does not exist."
            /\ output' = Append(output, "Error: Invalid value for 'DATA_GRAPH_FILE': File 'missing.ttl' does not exist.")
            /\ exit_code' = 2
            /\ vpc' = "exit"
       ELSE /\ vpc' = "paths"
            /\ UNCHANGED <<raised, output, exit_code>>
    /\ UNCHANGED <<other_vars, populate_vars, iface_obj, call, argv, validation>>

\* the paths of the shapes and of the ontology, and the echo of the data file
ValidatePaths ==
    /\ vpc = "paths"
    /\ output' = (output \o path_lines(argv))
                    \o <<"Validating data graph: " \o argv.data_graph_file>>
    /\ vpc' = "load"
    /\ UNCHANGED <<other_vars, populate_vars, iface_obj, call, raised, argv, validation, exit_code>>

\* "Load graphs"
ValidateLoad ==
    /\ vpc = "load"
    /\ IF load_raises(argv) # NoneStr
       THEN ValidateError(load_raises(argv))
       ELSE /\ vpc' = "validate"
            /\ UNCHANGED <<raised, output, exit_code>>
    /\ UNCHANGED <<other_vars, populate_vars, iface_obj, call, argv, validation>>

\* "Perform validation": conforms, results_graph, results_text = validate(...)
ValidateCheck ==
    /\ vpc = "validate"
    /\ \E outcome \in OracleOutcomes :
        IF outcome.raises # NoneStr
        THEN /\ ValidateError(outcome.raises)
             /\ UNCHANGED validation
        ELSE /\ validation' = <<outcome.conforms, outcome.results_text>>
             /\ vpc' = "report"
             /\ UNCHANGED <<raised, output, exit_code>>
    /\ UNCHANGED <<other_vars, populate_vars, iface_obj, call, argv>>

\* the report that returns on a graph that does not conform
ValidateReport_returns ==
    /\ vpc = "report"
    /\ LET conforms == validation[1]
           results_text == validation[2]
       IN  /\ output' = (output \o <<"\n--- Validation Results ---">>)
                \o (IF conforms THEN <<"Data graph conforms to the SHACL shapes.">>
                    ELSE <<"Data graph does NOT conform to the SHACL shapes.",
                           "Validation Report:", results_text>>)
           /\ exit_code' = 0
    /\ vpc' = "exit"
    /\ UNCHANGED <<other_vars, populate_vars, iface_obj, call, raised, argv, validation>>

\* "Print results": the command returns, and click ends it with status 0, or
\* it leaves through sys.exit(1), which `except Exception` does not catch
ValidateReport ==
    /\ vpc = "report"
    /\ LET conforms == validation[1]
           results_text == validation[2]
       IN  /\ output' = (output \o <<"\n--- Validation Results ---">>)
                \o (IF conforms THEN <<"Data graph conforms to the SHACL shapes.">>
                    ELSE <<"Data graph does NOT conform to the SHACL shapes.",
                           "Validation Report:", results_text>>)
           /\ exit_code' = IF conforms THEN 0 ELSE 1
    /\ vpc' = "exit"
    /\ UNCHANGED <<other_vars, populate_vars, iface_obj, call, raised, argv, validation>>

NextValidate ==
    \/ ValidateArguments
    \/ ValidatePaths
    \/ ValidateLoad
    \/ ValidateCheck
    \/ ValidateReport

SpecValidate == InitValidate /\ [][NextValidate]_vars

(***************************************************************************)
(* Emission one g.add at a time, and runs side by side                     *)
(***************************************************************************)
\* most entities in the collection of the runs
MaxRunBatch == 2

\* if self.description: g.add((uri, RDFS.comment, ...))
comment_adds(uri, self) ==
    IF self.description # NoneStr
    THEN <<<<uri, RDFS_comment, Literal(self.description)>>>> ELSE <<>>

\* for x_id in ids: g.add((subject, predicate, EX[x_id]))
link_adds(subject, predicate, ids) ==
    [i \in 1..Len(ids) |-> <<subject, predicate, EX(ids[i])>>]

\* The g.add statements of VLAN.to_rdf in the order the call reaches them.
VLAN_adds(self) ==
    LET uri == to_uri(self)
    IN  <<<<uri, RDF_type, NETWORK("VLAN")>>, <<uri, RDFS_label, Literal(self.id)>>>>
        \o comment_adds(uri, self)
        \o <<<<uri, NETWORK("vlanId"), LiteralTyped(str(self.vlan_id), XSD_integer)>>>>
        \o (IF self.name # NoneStr
            THEN <<<<uri, NETWORK("vlanName"), Literal(self.name)>>>> ELSE <<>>)
        \o link_adds(uri, NETWORK("hasSubnet"), self.has_subnet_ids)

AddressAssignment_adds(self) ==
    LET uri == to_uri(self)
    IN  <<<<uri, RDF_type, NETWORK("AddressAssignment")>>,
          <<uri, RDFS_label, Literal(self.id)>>>>
        \o comment_adds(uri, self)
        \o <<<<uri, NETWORK("ipValue"), Literal(self.ip_value)>>,
             <<uri, NETWORK("onSubnet"), EX(self.on_subnet_id)>>>>

\* for assignment in self.has_address_assignments: assignment.to_rdf(g), then
\* the hasAddressAssignment link
RECURSIVE Iface_assignment_adds(_, _)
Iface_assignment_adds(iface_uri, assignments) ==
    IF assignments = <<>> THEN <<>>
    ELSE (AddressAssignment_adds(Head(assignments))
            \o <<<<iface_uri, NETWORK("hasAddressAssignment"), to_uri(Head(assignments))>>>>)
         \o Iface_assignment_adds(iface_uri, Tail(assignments))

Iface_adds(self) ==
    LET uri == to_uri(self)
    IN  <<<<uri, RDF_type, NETWORK("Iface")>>, <<uri, RDFS_label, Literal(self.id)>>>>
        \o comment_adds(uri, self)
        \o <<<<uri, NETWORK("HWStatus"), Literal(self.hw_status)>>>>
        \o Iface_assignment_adds(uri, self.has_address_assignments)
        \o (IF self.connected_to_link_id # NoneStr
            THEN <<<<uri, NETWORK("ConnectedToLink"), EX(self.connected_to_link_id)>>>>
            ELSE <<>>)
        \o (IF self.belongs_to_node_id # NoneStr
            THEN <<<<uri, NETWORK("BelongsToNode"), EX(self.belongs_to_node_id)>>>>
            ELSE <<>>)
        \o <<<<uri, NETWORK("portMode"), Literal(self.port_mode)>>>>
        \o (IF self.port_mode = "ACCESS" /\ self.access_vlan_id # NoneInt
            THEN <<<<uri, NETWORK("accessVlan"),
                     EX(("VLAN" \o str(self.access_vlan_id)) \o "_obj")>>>>
            ELSE IF self.port_mode = "TRUNK"
            THEN [i \in 1..Len(self.allowed_vlan_ids) |->
                    <<uri, NETWORK("allowedVlan"),
                      EX(("VLAN" \o str(self.allowed_vlan_ids[i])) \o "_obj")>>]
            ELSE <<>>)

Link_adds(self) ==
    LET uri == to_uri(self)
    IN  <<<<uri, RDF_type, NETWORK("Link")>>, <<uri, RDFS_label, Literal(self.id)>>>>
        \o comment_adds(uri, self)
        \o <<<<uri, NETWORK("HWStatus"), Literal(self.hw_status)>>>>
        \o (IF self.bandwidth # NoneInt
            THEN <<<<uri, NETWORK("Bandwidth"), LiteralInt(self.bandwidth)>>>> ELSE <<>>)
        \o (IF self.technology # NoneStr
            THEN <<<<uri, NETWORK("Technology"), Literal(self.technology)>>>> ELSE <<>>)
        \o (IF self.cost # NoneInt
            THEN <<<<uri, NETWORK("Cost"), LiteralInt(self.cost)>>>> ELSE <<>>)
        \o link_adds(uri, NETWORK("hasInterface"), self.interface_ids)

\* The two statements of each round of a loop of Node.to_rdf: the link, then
\* the guarded add of its inverse, which adds the inverse unless it is there.
RECURSIVE pair_adds(_, _, _, _)
pair_adds(node_uri, predicate, inverse, ids) ==
    IF ids = <<>> THEN <<>>
    ELSE <<<<node_uri, predicate, EX(Head(ids))>>, <<EX(Head(ids)), inverse, node_uri>>>>
         \o pair_adds(node_uri, predicate, inverse, Tail(ids))

Node_adds(self) ==
    LET uri == to_uri(self)
    IN  <<<<uri, RDFS_label, Literal(self.id)>>>>
        \o comment_adds(uri, self)
        \o <<<<uri, NETWORK("HWStatus"), Literal(self.hw_status)>>>>
        \o pair_adds(uri, NETWORK("HasIFace"), NETWORK("BelongsToNode"), self.has_iface_ids)
        \o pair_adds(uri, NETWORK("HasNeighbor"), NETWORK("HasNeighbor"),
                     self.has_neighbor_ids)

Router_adds(self) ==
    (<<<<to_uri(self), RDF_type, NETWORK("Router")>>>> \o Node_adds(self))
    \o link_adds(to_uri(self), NETWORK("routesSubnet"), self.routes_subnet_ids)

Switch_adds(self) ==
    <<<<to_uri(self), RDF_type, NETWORK("Switch")>>>> \o Node_adds(self)

\* the statements of entity.to_rdf(g) for the classes of the collection
to_rdf_adds(self) ==
    CASE self.cls = "VLAN" -> VLAN_adds(self)
      [] self.cls = "AddressAssignment" -> AddressAssignment_adds(self)
      [] self.cls = "Iface" -> Iface_adds(self)
      [] self.cls = "Link" -> Link_adds(self)
      [] self.cls = "Router" -> Router_adds(self)
      [] self.cls = "Switch" -> Switch_adds(self)

\* The entities the collection of the runs is drawn from: a VLAN, an
\* AddressAssignment, the Iface holding it, a Link, and a Router and a Switch
\* that name each other as neighbors.
RunPool == {3, 7, 8, 11, 13, 14}

Runs == {1, 2}

\* Two runs of generate_network_rdf over one collection: each has made its
\* own Graph and put the ontology structure into it.
InitInterleave ==
    /\ objects = Universe
    /\ entities \in UNION {[1..k -> RunPool] : k \in 0..MaxRunBatch}
    /\ pc = 1
    /\ graph = {}
    /\ errors = <<>>
    /\ runs = [r \in Runs |-> [pc |-> 1, at |-> 0, graph |-> OntologyStructure]]
    /\ HWIdle
    /\ IfaceIdle
    /\ ValidateIdle

\* a step of g.add that writes into the one graph all runs use
RunAdd_shared_graph(r) ==
    /\ runs[r].pc <= Len(entities)
    /\ LET S == to_rdf_adds(objects[entities[runs[r].pc]])
           j == runs[r].at + 1
       IN  runs' = [q \in Runs |->
                        IF q = r
                        THEN [pc |-> IF j = Len(S) THEN runs[r].pc + 1 ELSE runs[r].pc,
                              at |-> IF j = Len(S) THEN 0 ELSE j,
                              graph |-> add(runs[r].graph, S[j])]
                        ELSE [runs[q] EXCEPT !.graph = add(runs[q].graph, S[j])]]
    /\ UNCHANGED <<populate_vars, hw_vars, iface_vars, validate_vars>>

\* Run r executes the next g.add of the to_rdf call it is in, on its own
\* graph; after the last one the call returns and the loop moves on.
RunAdd(r) ==
    /\ runs[r].pc <= Len(entities)
    /\ LET S == to_rdf_adds(objects[entities[runs[r].pc]])
           j == runs[r].at + 1
       IN  runs' = [runs EXCEPT ![r] =
                        [pc |-> IF j = Len(S) THEN runs[r].pc + 1 ELSE runs[r].pc,
                         at |-> IF j = Len(S) THEN 0 ELSE j,
                         graph |-> add(runs[r].graph, S[j])]]
    /\ UNCHANGED <<populate_vars, hw_vars, iface_vars, validate_vars>>

\* Run r executes one whole iteration of its loop.
RunEntity(r) ==
    /\ runs[r].pc <= Len(entities)
    /\ runs[r].at = 0
    /\ runs' = [runs EXCEPT ![r] =
                    [pc |-> runs[r].pc + 1, at |-> 0,
                     graph |-> to_rdf(objects[entities[runs[r].pc]], runs[r].graph)]]
    /\ UNCHANGED <<populate_vars, hw_vars, iface_vars, validate_vars>>

RunAddStep == \E r \in Runs : RunAdd(r)
RunEntityStep == \E r \in Runs : RunEntity(r)

NextInterleave ==
    \/ RunAddStep
    \/ RunEntityStep

SpecInterleave == InitInterleave /\ [][NextInterleave]_vars

(***************************************************************************)
(* Vocabulary of the properties                                            *)
(***************************************************************************)
Done == pc > Len(entities)

\* the entities whose to_rdf the loop has completed
Processed == {entities[i] : i \in 1..(pc - 1)}

\* how many times the loop has processed entity k
TimesProcessed(k) == Cardinality({i \in 1..(pc - 1) : entities[i] = k})

\* the graph the loop started on
StartGraph == graph \cap OntologyStructure

NodeClasses == {"Node", "Host", "Router", "Switch"}

\* the ascending list of the elements of a finite set of integers
RECURSIVE Ascending(_)
Ascending(S) ==
    IF S = {} THEN <<>>
    ELSE LET m == CHOOSE x \in S : \A y \in S : x <= y
         IN  <<m>> \o Ascending(S \ {m})

\* number of triples of the graph equal to t
Count(t) == Cardinality({u \in graph : u = t})

(***************************************************************************)
(* C1  Order independence: when the loop has finished, the graph is the    *)
(* one the loop builds from the same start graph when it is handed the     *)
(* same entities in ascending order; the final triple set therefore does   *)
(* not depend on the order of the input list.                              *)
(***************************************************************************)
C1_OrderIndependence ==
    Done => graph = populate(Ascending(Processed), StartGraph)

\* a finished run over three distinct, mutually referring entities handed
\* over in descending order: Switch Sw1, Router R1, Iface R1_Eth0
C1_Witness ==
    /\ Done
    /\ entities = <<14, 13, 8>>
    /\ EX("R1") \in {t[3] : t \in graph}

(***************************************************************************)
(* C2  Idempotent inverse edges: for a Node that lists an Interface which  *)
(* names that Node as its owner, once both have been emitted, however      *)
(* often and in whatever interleaving, the graph holds exactly one         *)
(* HasIFace triple node -> interface and exactly one BelongsToNode triple  *)
(* interface -> node.                                                      *)
(***************************************************************************)
C2_IdempotentInverseEdges ==
    \A n \in Processed, i \in Processed :
        LET node == Universe[n]
            iface == Universe[i]
        IN  (/\ node.cls \in NodeClasses
             /\ iface.cls = "Iface"
             /\ \E j \in 1..Len(node.has_iface_ids) : node.has_iface_ids[j] = iface.id
             /\ iface.belongs_to_node_id = node.id)
            => /\ Count(<<EX(node.id), NETWORK("HasIFace"), EX(iface.id)>>) = 1
               /\ Count(<<EX(iface.id), NETWORK("BelongsToNode"), EX(node.id)>>) = 1

\* the interface emitted, then its node, then the interface again
C2_Witness ==
    /\ Done
    /\ entities = <<8, 13, 8>>
    /\ TimesProcessed(8) = 2

\* the elements of a list
Range(seq) == {seq[j] : j \in 1..Len(seq)}

ProcessedOf(classes) == {k \in Processed : Universe[k].cls \in classes}

(***************************************************************************)
(* C3  Interface-side link inverse: once an Interface with a connecting    *)
(* Link set has been emitted, the graph holds (interface, ConnectedToLink, *)
(* link) and the inverse (link, hasInterface, interface).                  *)
(***************************************************************************)
C3_IfaceLinkInverse ==
    \A i \in ProcessedOf({"Iface"}) :
        LET iface == Universe[i]
        IN  iface.connected_to_link_id # NoneStr
            => /\ <<EX(iface.id), NETWORK("ConnectedToLink"),
                    EX(iface.connected_to_link_id)>> \in graph
               /\ <<EX(iface.connected_to_link_id), NETWORK("hasInterface"),
                    EX(iface.id)>> \in graph

(***************************************************************************)
(* C4  Link-side interface inverse: once a Link that lists an Interface    *)
(* has been emitted, the graph holds (link, hasInterface, interface) and   *)
(* the inverse (interface, ConnectedToLink, link).                         *)
(***************************************************************************)
C4_LinkIfaceInverse ==
    \A l \in ProcessedOf({"Link"}) :
        LET link == Universe[l]
        IN  \A iface_id \in Range(link.interface_ids) :
                /\ <<EX(link.id), NETWORK("hasInterface"), EX(iface_id)>> \in graph
                /\ <<EX(iface_id), NETWORK("ConnectedToLink"), EX(link.id)>> \in graph

(***************************************************************************)
(* C5  Interface-side membership inverse: once an Interface with an owning *)
(* Node set has been emitted, the graph holds (interface, BelongsToNode,   *)
(* node) and the inverse (node, HasIFace, interface).                      *)
(***************************************************************************)
C5_IfaceNodeInverse ==
    \A i \in ProcessedOf({"Iface"}) :
        LET iface == Universe[i]
        IN  iface.belongs_to_node_id # NoneStr
            => /\ <<EX(iface.id), NETWORK("BelongsToNode"),
                    EX(iface.belongs_to_node_id)>> \in graph
               /\ <<EX(iface.belongs_to_node_id), NETWORK("HasIFace"),
                    EX(iface.id)>> \in graph

(***************************************************************************)
(* C6  Node-side membership inverse: once a Node, Host, Router or Switch   *)
(* that lists an Interface has been emitted, the graph holds (node,        *)
(* HasIFace, interface) and (interface, BelongsToNode, node), whether the  *)
(* Interface was emitted before it, after it or not at all.                *)
(***************************************************************************)
C6_NodeIfaceInverse ==
    \A n \in ProcessedOf(NodeClasses) :
        LET node == Universe[n]
        IN  \A iface_id \in Range(node.has_iface_ids) :
                /\ <<EX(node.id), NETWORK("HasIFace"), EX(iface_id)>> \in graph
                /\ <<EX(iface_id), NETWORK("BelongsToNode"), EX(node.id)>> \in graph

\* Host H1, which lists H1_Eth0, emitted in a run that never emits an Iface
C6_Witness ==
    /\ Done
    /\ 15 \in Processed
    /\ ProcessedOf({"Iface"}) = {}
    /\ <<EX("H1_Eth0"), NETWORK("BelongsToNode"), EX("H1")>> \in graph

(***************************************************************************)
(* C7  Neighbor symmetry: after every completed emission the HasNeighbor   *)
(* relation of the graph is symmetric, and each direction is present       *)
(* exactly once, also when both nodes list each other.                     *)
(***************************************************************************)
C7_NeighborSymmetry ==
    \A t \in graph :
        t[2] = NETWORK("HasNeighbor")
        => /\ Count(t) = 1
           /\ Count(<<t[3], NETWORK("HasNeighbor"), t[1]>>) = 1

\* R1 and Sw1, which list each other, both emitted, and H1, which lists Sw1
\* one-sidedly
C7_Witness ==
    /\ {13, 14, 15} \subseteq Processed
    /\ <<EX("Sw1"), NETWORK("HasNeighbor"), EX("H1")>> \in graph
    /\ <<EX("Sw1"), NETWORK("HasNeighbor"), EX("R1")>> \in graph

\* the subjects of the triples of the graph
Subjects == {t[1] : t \in graph}

\* the characters cs with every "/" turned into "_", as one string
RECURSIVE SlashesToUnderscores(_)
SlashesToUnderscores(cs) ==
    IF cs = <<>> THEN ""
    ELSE (IF Head(cs) = "/" THEN "_" ELSE Head(cs)) \o SlashesToUnderscores(Tail(cs))

\* the node name the specification gives a Subnet with this CIDR
SubnetName(cidr) == "Subnet_" \o SlashesToUnderscores(cidr)

(***************************************************************************)
(* C8  Subnet identity is a function of the CIDR alone: the node of a      *)
(* Subnet is "Subnet_" followed by the CIDR with "/" replaced by "_",      *)
(* whatever its id; Subnets with equal CIDR and different ids have the     *)
(* same node; and an emitted Subnet has its is-a, label and CIDR triples   *)
(* on that node, while a Subnet id that is not such a name is the subject  *)
(* of no triple.                                                           *)
(***************************************************************************)
C8_SubnetIdentity ==
    /\ \A k \in ProcessedOf({"Subnet"}) :
        LET subnet == Universe[k]
            node == EX(SubnetName(subnet.cidr))
        IN  /\ <<node, RDF_type, NETWORK("Subnet")>> \in graph
            /\ \E t \in graph : t[1] = node /\ t[2] = RDFS_label
            /\ \E t \in graph : t[1] = node /\ t[2] = NETWORK("subnetCidr")
            /\ (subnet.id # SubnetName(subnet.cidr) => EX(subnet.id) \notin Subjects)
    /\ \A t \in graph :
        t[3] = NETWORK("Subnet") /\ t[2] = RDF_type
        => \E k \in ProcessedOf({"Subnet"}) : t[1] = EX(SubnetName(Universe[k].cidr))
    /\ (2 \in Processed => EX("Subnet_10_8") \in Subjects)

\* the Subnet with id IrrelevantID and CIDR 10/8 emitted next to the Subnet
\* with id Subnet_10_8 and the same CIDR
C8_Witness ==
    /\ {1, 2} \subseteq Processed
    /\ <<EX("Subnet_10_8"), RDF_type, NETWORK("Subnet")>> \in graph

\* the VLAN classes: VLAN of models.py and VLAN of main.py
VLANClasses == {"VLAN", "main.VLAN"}

(***************************************************************************)
(* C9 as stated  VLAN identity: the subject of the triples an emitted VLAN *)
(* contributes is "VLAN" followed by the decimal vlan_id and is not taken  *)
(* from the id of the VLAN.                                                *)
(***************************************************************************)
C9_VlanIdentityByNumber ==
    \A k \in ProcessedOf(VLANClasses) :
        LET vlan == Universe[k]
            node == EX("VLAN" \o str(vlan.vlan_id))
        IN  /\ <<node, RDF_type, NETWORK("VLAN")>> \in graph
            /\ \E t \in graph : t[1] = node /\ t[2] = NETWORK("vlanId")
            /\ (ProcessedOf(VLANClasses) = {k} /\ EX(vlan.id) # node
                    => EX(vlan.id) \notin Subjects)

(***************************************************************************)
(* C9 as amended  VLAN identity: a VLAN of models.py is emitted on the     *)
(* node named by its id, verbatim, so that VLANs with one vlan_id and      *)
(* different ids are different nodes; only the VLAN of main.py is emitted  *)
(* on the node named "VLAN" followed by the decimal vlan_id.               *)
(***************************************************************************)
C9_VlanIdentity ==
    /\ \A k \in ProcessedOf({"VLAN"}) :
        LET vlan == Universe[k]
            node == EX(vlan.id)
        IN  /\ <<node, RDF_type, NETWORK("VLAN")>> \in graph
            /\ <<node, RDFS_label, Literal(vlan.id)>> \in graph
            /\ \E t \in graph : t[1] = node /\ t[2] = NETWORK("vlanId")
            /\ (ProcessedOf(VLANClasses) = {k}
                    => EX("VLAN" \o str(vlan.vlan_id)) \notin Subjects)
    /\ \A k \in ProcessedOf({"main.VLAN"}) :
        LET vlan == Universe[k]
            node == EX("VLAN" \o str(vlan.vlan_id))
        IN  /\ <<node, RDF_type, NETWORK("VLAN")>> \in graph
            /\ \E t \in graph : t[1] = node /\ t[2] = NETWORK("vlanId")
            /\ (ProcessedOf(VLANClasses) = {k} /\ EX(vlan.id) # node
                    => EX(vlan.id) \notin Subjects)
    /\ (ProcessedOf(VLANClasses) = {3, 4}
            => {s \in Subjects : <<s, RDF_type, NETWORK("VLAN")>> \in graph}
               = {EX("VLAN10_obj"), EX("VlanTen")})
    /\ (ProcessedOf(VLANClasses) = {5, 6}
            => {s \in Subjects : <<s, RDF_type, NETWORK("VLAN")>> \in graph}
               = {EX("VLAN10")})

\* both VLANs of models.py with vlan_id 10 emitted, and a VLAN of main.py
C9_Witness ==
    /\ Done
    /\ ProcessedOf(VLANClasses) = {3, 4, 5}
    /\ {EX("VLAN10_obj"), EX("VlanTen"), EX("VLAN10")} \subseteq Subjects

(***************************************************************************)
(* C10  Subnet cross-references resolve to the identity of the Subnet:     *)
(* once a VLAN, AddressAssignment or Router that references a Subnet and   *)
(* that Subnet have both been emitted, the graph holds (referrer,          *)
(* hasSubnet / onSubnet / routesSubnet, node of the Subnet), the node      *)
(* being the CIDR-derived one that carries the Subnet's own triples.       *)
(***************************************************************************)
C10_SubnetReferences ==
    \A r \in ProcessedOf({"VLAN", "AddressAssignment", "Router"}),
       k \in ProcessedOf({"Subnet"}) :
        LET referrer == Universe[r]
            subnet == Universe[k]
            node == EX(SubnetName(subnet.cidr))
        IN  /\ <<node, RDF_type, NETWORK("Subnet")>> \in graph
            /\ (referrer.cls = "VLAN" /\ subnet.id \in Range(referrer.has_subnet_ids)
                    => <<EX(referrer.id), NETWORK("hasSubnet"), node>> \in graph)
            /\ (referrer.cls = "AddressAssignment" /\ subnet.id = referrer.on_subnet_id
                    => <<EX(referrer.id), NETWORK("onSubnet"), node>> \in graph)
            /\ (referrer.cls = "Router" /\ subnet.id \in Range(referrer.routes_subnet_ids)
                    => <<EX(referrer.id), NETWORK("routesSubnet"), node>> \in graph)

\* the nodes that carry the own triples of an emitted VLAN of models.py: its
\* is-a triple and the label made of its id
VlanNodes(vlan) ==
    {n \in Subjects : /\ <<n, RDF_type, NETWORK("VLAN")>> \in graph
                      /\ <<n, RDFS_label, Literal(vlan.id)>> \in graph}

(***************************************************************************)
(* C11  VLAN cross-references resolve to the identity of the VLAN: once an *)
(* Interface in ACCESS mode with access VLAN v, or in TRUNK mode with      *)
(* allowed VLAN v, and the VLAN with that vlan_id have both been emitted,  *)
(* the object of the accessVlan / allowedVlan triple is the node that      *)
(* carries the VLAN's own triples, however the id of the VLAN is spelled.  *)
(***************************************************************************)
C11_VlanReferences ==
    \A i \in ProcessedOf({"Iface"}), v \in ProcessedOf({"VLAN"}) :
        LET iface == Universe[i]
            vlan == Universe[v]
        IN  /\ VlanNodes(vlan) # {}
            /\ (iface.port_mode = "ACCESS" /\ iface.access_vlan_id = vlan.vlan_id
                    => \A n \in VlanNodes(vlan) :
                           <<EX(iface.id), NETWORK("accessVlan"), n>> \in graph)
            /\ (iface.port_mode = "TRUNK" /\ vlan.vlan_id \in Range(iface.allowed_vlan_ids)
                    => \A n \in VlanNodes(vlan) :
                           <<EX(iface.id), NETWORK("allowedVlan"), n>> \in graph)

\* the port-mode matrix on a record with the three fields
PortModeMatrix(r) ==
    \/ r.port_mode = "ACCESS" /\ r.allowed_vlan_ids = <<>>
    \/ r.port_mode = "TRUNK" /\ r.access_vlan_id = NoneInt
    \/ r.port_mode = "UNCONFIGURED" /\ r.access_vlan_id = NoneInt
                                    /\ r.allowed_vlan_ids = <<>>

\* the last operation was a constructor call
Constructed == call.op = "Iface"

(***************************************************************************)
(* C12  Port-mode validation matrix: a constructor call returns an Iface    *)
(* if and only if its arguments are ACCESS with no allowed VLANs, TRUNK     *)
(* with no access VLAN, or UNCONFIGURED with neither; ACCESS without an     *)
(* access VLAN and TRUNK without allowed VLANs are accepted, and every      *)
(* other combination raises.                                                *)
(***************************************************************************)
C12_ValidationMatrix ==
    Constructed =>
        /\ iface_obj # NoIface <=> PortModeMatrix(call)
        /\ iface_obj = NoIface <=> raised # NoneStr
        /\ iface_obj # NoIface =>
                /\ iface_obj.id = call.id
                /\ iface_obj.port_mode = call.port_mode
                /\ iface_obj.access_vlan_id = call.access_vlan_id
                /\ iface_obj.allowed_vlan_ids = call.allowed_vlan_ids

\* an ACCESS interface without an access VLAN has been constructed
C12_Witness ==
    /\ Constructed
    /\ call.port_mode = "ACCESS"
    /\ call.access_vlan_id = NoneInt
    /\ iface_obj # NoIface

(***************************************************************************)
(* C13  Port-mode consistency for the lifetime of an Iface: whatever is     *)
(* assigned to port_mode, access_vlan_id or allowed_vlan_ids after the      *)
(* construction, the Iface satisfies the port-mode matrix.                  *)
(***************************************************************************)
C13_LifetimeConsistency ==
    iface_obj # NoIface /\ iface_obj.port_mode \in PortModes
        => PortModeMatrix(iface_obj)

\* the field a rejected combination of arguments conflicts on
ConflictingField(c) ==
    IF c.port_mode = "ACCESS" THEN "allowed_vlan_ids"
    ELSE IF c.port_mode = "TRUNK" THEN "access_vlan_id"
    ELSE IF c.access_vlan_id # NoneInt THEN "access_vlan_id"
    ELSE "allowed_vlan_ids"

(***************************************************************************)
(* C14  A constructor call whose port mode is one of the three modes and    *)
(* whose arguments the matrix rejects returns no Iface and raises an error  *)
(* that names the conflicting field, the port mode and the interface id;    *)
(* for UNCONFIGURED with both an access VLAN and allowed VLANs the field    *)
(* named is the access VLAN.                                                *)
(***************************************************************************)
C14_RejectionError ==
    Constructed /\ call.port_mode \in PortModes /\ ~PortModeMatrix(call) =>
        /\ iface_obj = NoIface
        /\ raised = ConflictingField(call) \o " cannot be set when port_mode is "
                        \o call.port_mode \o " (Interface ID: " \o call.id \o ")"
        /\ call.port_mode = "UNCONFIGURED" /\ call.access_vlan_id # NoneInt
                /\ call.allowed_vlan_ids # <<>>
            => raised = "access_vlan_id cannot be set when port_mode is UNCONFIGURED"
                            \o " (Interface ID: " \o call.id \o ")"

\* UNCONFIGURED with both fields set has been rejected
C14_Witness ==
    /\ Constructed
    /\ call.port_mode = "UNCONFIGURED"
    /\ call.access_vlan_id = 10
    /\ call.allowed_vlan_ids = <<10, 20>>
    /\ iface_obj = NoIface
    /\ raised # NoneStr

\* the positions the loop has been through whose to_rdf raised
FailedAt == {i \in 1..(pc - 1) : to_rdf_raises(objects[entities[i]]) # NoneStr}

\* the list without the entities whose to_rdf raises
Valid(es) == SelectSeq(es, LAMBDA k : to_rdf_raises(objects[k]) = NoneStr)

(***************************************************************************)
(* C15  Failure isolation: each to_rdf that raises is reported by exactly   *)
(* one line, which carries the id of its entity, and the loop goes on: when *)
(* it has finished, the graph holds what the loop builds from the list      *)
(* without the failing entities, and beyond that only what the failing      *)
(* to_rdf had added before it raised.                                       *)
(***************************************************************************)
C15_FailureIsolation ==
    /\ Len(errors) = Cardinality(FailedAt)
    /\ \A j \in 1..Len(errors) :
            \E i \in FailedAt :
                /\ Cardinality({h \in FailedAt : h <= i}) = j
                /\ errors[j] = "Error processing entity " \o objects[entities[i]].id
                                    \o ": 'NoneType' object is not iterable"
    /\ Done =>
            /\ populate(Valid(entities), StartGraph) \subseteq graph
            /\ graph \ populate(Valid(entities), StartGraph)
                    \subseteq UNION {to_rdf(objects[entities[i]], {}) : i \in FailedAt}

\* the loop has finished a list whose second entity failed, between two that
\* did not
C15_Witness ==
    /\ Done
    /\ Len(entities) >= 3
    /\ FailedAt = {2}
    /\ Len(errors) = 1
    /\ objects[entities[3]].cls = "Router"

\* the objects of the triples of the graph with subject s and predicate p
ObjectsOf(s, p) == {t[3] : t \in {u \in graph : u[1] = s /\ u[2] = p}}

(***************************************************************************)
(* C16 as stated  Trunk scenario: once Sw1_G0 (TRUNK, allowed VLANs 10 and  *)
(* 20) is emitted, its allowedVlan triples are exactly two, their objects   *)
(* are the nodes VLAN10 and VLAN20, and it has no accessVlan triple.        *)
(***************************************************************************)
C16_TrunkScenarioByNumber ==
    9 \in Processed =>
        /\ ObjectsOf(EX("Sw1_G0"), NETWORK("allowedVlan")) = {EX("VLAN10"), EX("VLAN20")}
        /\ ObjectsOf(EX("Sw1_G0"), NETWORK("accessVlan")) = {}

(***************************************************************************)
(* C16 as amended  Trunk scenario: once Sw1_G0 (TRUNK, allowed VLANs 10     *)
(* and 20) is emitted, its allowedVlan triples are exactly two, their       *)
(* objects are the nodes VLAN10_obj and VLAN20_obj, and it has no           *)
(* accessVlan triple; VLAN10_obj is the node the VLAN with that id is       *)
(* emitted on.                                                              *)
(***************************************************************************)
C16_TrunkScenario ==
    9 \in Processed =>
        /\ ObjectsOf(EX("Sw1_G0"), NETWORK("allowedVlan"))
                = {EX("VLAN10_obj"), EX("VLAN20_obj")}
        /\ Cardinality({t \in graph : t[1] = EX("Sw1_G0")
                                        /\ t[2] = NETWORK("allowedVlan")}) = 2
        /\ ObjectsOf(EX("Sw1_G0"), NETWORK("accessVlan")) = {}
        /\ (3 \in Processed => EX("VLAN10_obj") \in VlanNodes(vlan10))

\* the loop has finished a list with Sw1_G0 and the VLAN VLAN10_obj
C16_Witness ==
    /\ Done
    /\ {3, 9} \subseteq Processed

\* the node an entity is emitted on
NodeOf(entity) ==
    IF entity.cls = "main.VLAN" THEN main_VLAN_uri(entity) ELSE to_uri(entity)

\* the kind of an entity: the name of its class
KindOf(entity) == IF entity.cls = "main.VLAN" THEN "VLAN" ELSE entity.cls

(***************************************************************************)
(* C17  Exactly one is-a triple per entity: once an entity of any kind, a   *)
(* plain Node included, is emitted, the graph holds exactly one rdf:type    *)
(* triple whose subject is the node of the entity, and its object is the    *)
(* kind of the entity.                                                      *)
(***************************************************************************)
C17_ExactlyOneIsA ==
    \A k \in Processed :
        LET entity == Universe[k]
        IN  {t \in graph : t[1] = NodeOf(entity) /\ t[2] = RDF_type}
                = {<<NodeOf(entity), RDF_type, NETWORK(KindOf(entity))>>}

\* the predicates of the numeric attributes, and of the CIDR and the IP value
IntegerPredicates == {NETWORK("vlanId"), NETWORK("Bandwidth"), NETWORK("Cost")}
StringPredicates == {NETWORK("subnetCidr"), NETWORK("ipValue")}

(***************************************************************************)
(* C18  Literal typing: every literal the loop emits is a typed integer if  *)
(* it is a VLAN id, a bandwidth or a cost, a typed string if it is a CIDR   *)
(* or an IP value, and a plain literal without datatype otherwise.          *)
(***************************************************************************)
C18_LiteralTyping ==
    \A t \in graph :
        t[3].kind = "Literal" =>
            t[3].datatype = IF t[2] \in IntegerPredicates THEN XSD_integer
                            ELSE IF t[2] \in StringPredicates THEN XSD_string
                            ELSE ""

(***************************************************************************)
(* C19  The conformance outcome drives the completion status: a validate    *)
(* run that ends after the oracle returned conforms = false has echoed the  *)
(* whole results text and ends with a non-zero status; one that ends after  *)
(* conforms = true ends with status 0; one in which loading or checking     *)
(* raised ends with a non-zero status.                                      *)
(***************************************************************************)
C19_CompletionStatus ==
    vpc = "exit" =>
        /\ exit_code # NoneInt
        /\ (validation # <<>> /\ ~validation[1]
                => exit_code # 0 /\ validation[2] \in Range(output))
        /\ (validation # <<>> /\ validation[1] => exit_code = 0)
        /\ (raised # NoneStr => exit_code # 0)
        /\ (exit_code = 0 => validation # <<>> /\ validation[1])

\* a run has ended on a data graph that does not conform
C19_Witness ==
    /\ vpc = "exit"
    /\ validation # <<>>
    /\ ~validation[1]
    /\ exit_code = 1
    /\ argv.shapes_file = NoneStr

(***************************************************************************)
(* C20  Emission does not mutate entities: no step of the loop changes an   *)
(* attribute of an entity object, the nested AddressAssignments and the     *)
(* reference lists included, nor the list of entities; what a step changes  *)
(* is the graph.                                                            *)
(***************************************************************************)
C20_EmissionFrame ==
    [][objects' = objects /\ entities' = entities]_vars

\* the loop has emitted an Iface holding an AddressAssignment, a Router with
\* its reference lists and a VLAN, and the objects are as constructed
C20_Witness ==
    /\ Done
    /\ 8 \in Processed
    /\ ProcessedOf({"Router"}) # {}
    /\ ProcessedOf({"VLAN"}) # {}
    /\ graph # StartGraph
    /\ objects = Universe

\* the first n elements of a sequence, as a set
FirstOf(seq, n) == {seq[i] : i \in 1..n}

(***************************************************************************)
(* C21  Independent runs interleave safely: however the steps of two runs   *)
(* over one collection interleave, by whole entities or by single           *)
(* insertions, the graph of each run is at every moment what that run alone *)
(* has built so far, and when the run has finished it is the graph a solo   *)
(* run builds; the entities are as they were.                               *)
(***************************************************************************)
C21_IndependentRuns ==
    runs # <<>> =>
        /\ objects = Universe
        /\ \A r \in Runs :
            LET done == SubSeq(entities, 1, runs[r].pc - 1)
                solo == populate(done, OntologyStructure)
            IN  /\ runs[r].pc <= Len(entities) =>
                    runs[r].graph
                        = solo \cup FirstOf(to_rdf_adds(objects[entities[runs[r].pc]]),
                                            runs[r].at)
                /\ runs[r].pc > Len(entities) =>
                    runs[r].graph = populate(entities, OntologyStructure)

\* one run has finished while the other is inside a to_rdf call
C21_Witness ==
    /\ runs # <<>>
    /\ Len(entities) = 2
    /\ runs[1].pc > Len(entities)
    /\ runs[2].pc = 1
    /\ runs[2].at = 2
    /\ runs[1].graph # runs[2].graph

\* a hardware constructor call has been made / has returned an entity
HWCalled == hw_call.cls # NoneStr
HWBuilt == hw_obj.cls # NoneStr

\* the HWStatus triples of the graph on the node of the entity built
HWStatusTriples ==
    {t \in graph : t[1] = EX(hw_call.id) /\ t[2] = NETWORK("HWStatus")}

(***************************************************************************)
(* C22 as stated  Hardware status domain: a hardware entity is built if     *)
(* and only if the status given is ON, OFF or ABNORMAL or none is given,    *)
(* its status is the one given, ON if none, and its emission leaves exactly *)
(* one status triple, carrying that value.                                  *)
(***************************************************************************)
C22_StatusDomainAbnormal ==
    HWCalled =>
        /\ HWBuilt <=> hw_call.hw_status \in {NoneStr, "ON", "OFF", "ABNORMAL"}
        /\ HWBuilt => hw_obj.hw_status
                        = IF hw_call.hw_status = NoneStr THEN "ON" ELSE hw_call.hw_status
        /\ HWBuilt /\ graph # {}
            => HWStatusTriples
                = {<<EX(hw_call.id), NETWORK("HWStatus"), Literal(hw_obj.hw_status)>>}

(***************************************************************************)
(* C22 as amended  Hardware status domain: a hardware entity of any of the  *)
(* classes is built if and only if the status given is ON, OFF or ABN or    *)
(* none is given; any other value, ABNORMAL included, is rejected with an   *)
(* error; its status is the one given, ON if none, and its emission leaves  *)
(* exactly one status triple, a plain literal carrying that value.          *)
(***************************************************************************)
C22_StatusDomain ==
    HWCalled =>
        /\ HWBuilt <=> hw_call.hw_status \in {NoneStr, "ON", "OFF", "ABN"}
        /\ ~HWBuilt <=> raised # NoneStr
        /\ HWBuilt =>
            /\ hw_obj.cls = hw_call.cls
            /\ hw_obj.id = hw_call.id
            /\ hw_obj.hw_status
                = IF hw_call.hw_status = NoneStr THEN "ON" ELSE hw_call.hw_status
        /\ HWBuilt /\ graph # {}
            => /\ HWStatusTriples
                    = {<<EX(hw_call.id), NETWORK("HWStatus"), Literal(hw_obj.hw_status)>>}
               /\ Cardinality(HWStatusTriples) = 1

\* a Link built with status ABN has been emitted
C22_Witness ==
    /\ hw_call.cls = "Link"
    /\ hw_call.hw_status = "ABN"
    /\ HWBuilt
    /\ <<EX(hw_call.id), NETWORK("HWStatus"), Literal("ABN")>> \in graph

(***************************************************************************)
(* C23  VLAN id uniqueness: a collection the loop has gone through without  *)
(* reporting an error holds no two distinct VLAN entities with the same     *)
(* vlan_id.                                                                 *)
(***************************************************************************)
C23_VlanIdUnique ==
    Done /\ errors = <<>> =>
        \A i, j \in 1..Len(entities) :
            LET a == objects[entities[i]]
                b == objects[entities[j]]
            IN  a.cls = "VLAN" /\ b.cls = "VLAN" /\ a.vlan_id = b.vlan_id
                    => entities[i] = entities[j]

\* the predicates of the attribute triples of an AddressAssignment
AssignmentPredicates ==
    {RDF_type, RDFS_label, RDFS_comment, NETWORK("ipValue"), NETWORK("onSubnet")}

(***************************************************************************)
(* C24  Self-emission does not recurse: after the emission of one entity on *)
(* the start graph, every triple added has the node of the entity as its    *)
(* subject, or as its object when it is an inverse; for an Iface, no        *)
(* attribute triple has one of its AddressAssignments as subject, and the   *)
(* hasAddressAssignment link to each is there.                              *)
(***************************************************************************)
C24_NoRecursion ==
    pc = 2 =>
        LET entity == Universe[entities[1]]
        IN  /\ \A t \in graph \ StartGraph :
                    t[1] = NodeOf(entity) \/ t[3] = NodeOf(entity)
            /\ entity.cls = "Iface" =>
                \A n \in 1..Len(entity.has_address_assignments) :
                    LET assignment_uri == to_uri(entity.has_address_assignments[n])
                    IN  /\ <<NodeOf(entity), NETWORK("hasAddressAssignment"),
                             assignment_uri>> \in graph
                        /\ \A t \in graph :
                                ~(t[1] = assignment_uri /\ t[2] \in AssignmentPredicates)

Emitted == call.op = "to_rdf"

\* the node of the VLAN instance numbered vlan_id
VlanInstance(vlan_id) == EX(("VLAN" \o str(vlan_id)) \o "_obj")

(***************************************************************************)
(* C26  VLAN edges follow the port mode: one emission of an Iface into an   *)
(* empty graph gives an accessVlan triple exactly when port_mode is ACCESS  *)
(* and an access VLAN is set, and then that one alone; gives allowedVlan    *)
(* triples only when port_mode is TRUNK, one for each distinct allowed      *)
(* VLAN; gives neither for UNCONFIGURED; always gives exactly one portMode  *)
(* literal; and never gives both kinds of VLAN triple. This holds also for  *)
(* an Iface whose fields were assigned after its construction.              *)
(***************************************************************************)
C26_VlanEdgesFollowMode ==
    Emitted =>
        LET iface_uri == to_uri(iface_obj)
            access == {t \in graph : t[1] = iface_uri /\ t[2] = NETWORK("accessVlan")}
            allowed == {t \in graph : t[1] = iface_uri /\ t[2] = NETWORK("allowedVlan")}
            mode == {t \in graph : t[1] = iface_uri /\ t[2] = NETWORK("portMode")}
        IN  /\ access =
                    IF iface_obj.port_mode = "ACCESS" /\ iface_obj.access_vlan_id # NoneInt
                    THEN {<<iface_uri, NETWORK("accessVlan"),
                            VlanInstance(iface_obj.access_vlan_id)>>}
                    ELSE {}
            /\ allowed =
                    IF iface_obj.port_mode = "TRUNK"
                    THEN {<<iface_uri, NETWORK("allowedVlan"), VlanInstance(vlan_id)>> :
                                vlan_id \in Range(iface_obj.allowed_vlan_ids)}
                    ELSE {}
            /\ Cardinality(access) <= 1
            /\ Cardinality(allowed) = IF iface_obj.port_mode = "TRUNK"
                                      THEN Cardinality(Range(iface_obj.allowed_vlan_ids))
                                      ELSE 0
            /\ iface_obj.port_mode = "UNCONFIGURED" => access = {} /\ allowed = {}
            /\ mode = {<<iface_uri, NETWORK("portMode"), Literal(iface_obj.port_mode)>>}
            /\ access = {} \/ allowed = {}

\* an ACCESS Iface that was assigned allowed VLANs after its construction and
\* then emitted: the access VLAN is written, the allowed VLANs are not
C26_Witness ==
    /\ Emitted
    /\ iface_obj.port_mode = "ACCESS"
    /\ iface_obj.access_vlan_id = 10
    /\ iface_obj.allowed_vlan_ids = <<20, 20>>
    /\ Cardinality({t \in graph : t[2] = NETWORK("accessVlan")}) = 1

\* the triples of the graph with subject s and predicate p
TriplesOf(s, p) == {t \in graph : t[1] = s /\ t[2] = p}

(***************************************************************************)
(* C27  Colliding Subnets do not duplicate key triples: once two Subnets    *)
(* with the same CIDR and different ids have both been emitted into the     *)
(* graph, the node they share is the subject of exactly one rdf:type        *)
(* triple, exactly one rdfs:label triple and exactly one subnetCidr triple. *)
(***************************************************************************)
C27_CollidingSubnets ==
    \A j, k \in ProcessedOf({"Subnet"}) :
        Universe[j].cidr = Universe[k].cidr /\ Universe[j].id # Universe[k].id =>
            LET node == to_uri(Universe[j])
            IN  /\ to_uri(Universe[k]) = node
                /\ Cardinality(TriplesOf(node, RDF_type)) = 1
                /\ Cardinality(TriplesOf(node, RDFS_label)) = 1
                /\ Cardinality(TriplesOf(node, NETWORK("subnetCidr"))) = 1

\* the Subnets Subnet_10_8 and IrrelevantID, both of CIDR 10/8, have both
\* been emitted, and the list is finished
C27_Witness ==
    /\ Done
    /\ {1, 2} \subseteq Processed
    /\ <<EX("Subnet_10_8"), RDFS_label, Literal("Subnet 10/8")>> \in graph

\* every neighbor a node of the list names is linked to the node, both ways
NeighborsLinked ==
    \A i \in 1..Len(entities) :
        LET entity == Universe[entities[i]]
        IN  entity.cls \in NodeClasses =>
                \A n \in 1..Len(entity.has_neighbor_ids) :
                    LET neighbor_uri == EX(entity.has_neighbor_ids[n])
                    IN  /\ <<to_uri(entity), NETWORK("HasNeighbor"), neighbor_uri>> \in graph
                        /\ <<neighbor_uri, NETWORK("HasNeighbor"), to_uri(entity)>> \in graph

(***************************************************************************)
(* C28  Forward references and cycles are tolerated and the loop            *)
(* terminates: on every list, also one where a node names a neighbor that   *)
(* comes later in the list, where two nodes name each other, or where the   *)
(* neighbor named is not in the list, every step of the loop takes the      *)
(* next entry of the list, the loop comes to the end of the list and stays  *)
(* there, and the graph it ends with holds the neighbor triples of every    *)
(* node of the list.                                                        *)
(***************************************************************************)
C28_Terminates ==
    /\ [][pc' = pc + 1 /\ pc <= Len(entities)]_vars
    /\ <>[](pc = Len(entities) + 1 /\ NeighborsLinked)

\* the loop has finished a list where the Router R1 names the Switch Sw1
\* before Sw1 is emitted, Sw1 names R1 back, and the Host H1 names Sw1
C28_Witness ==
    /\ Done
    /\ entities = <<13, 15, 14>>
    /\ <<EX("R1"), NETWORK("HasNeighbor"), EX("Sw1")>> \in graph

\* what Node.to_rdf adds for the node before it comes to the neighbors
BeforeNeighbors(node) ==
    {<<to_uri(node), RDFS_label, Literal(node.id)>>,
     <<to_uri(node), NETWORK("HWStatus"), Literal(node.hw_status)>>}
    \cup {<<to_uri(node), NETWORK("HasIFace"), EX(node.has_iface_ids[n])>> :
                n \in 1..Len(node.has_iface_ids)}

(***************************************************************************)
(* C29  A failed emission is not rolled back: every step of the loop leaves *)
(* in the graph every triple that was in it, and the step on an entity      *)
(* whose to_rdf raises leaves in the graph the triples to_rdf added before  *)
(* it raised: the label, the status and the interface links of the node.    *)
(***************************************************************************)
C29_NoRollback ==
    [][/\ graph \subseteq graph'
       /\ to_rdf_raises(objects[entities[pc]]) # NoneStr =>
            BeforeNeighbors(objects[entities[pc]]) \subseteq graph']_vars

\* the loop has emitted a VLAN, then the Host H2 whose to_rdf raised, and
\* the label of H2 is in the graph next to the triples of the VLAN
C29_Witness ==
    /\ pc = 3
    /\ entities[1] = 3
    /\ FailedAt = {2}
    /\ <<EX("H2"), RDFS_label, Literal("H2")>> \in graph
    /\ <<EX("VLAN10_obj"), RDF_type, NETWORK("VLAN")>> \in graph

\* the nodes of the AddressAssignments an Iface holds
NestedNodes(entity) ==
    IF entity.cls = "Iface"
    THEN {to_uri(entity.has_address_assignments[n]) :
                n \in 1..Len(entity.has_address_assignments)}
    ELSE {}

(***************************************************************************)
(* C30  Identity is deterministic and independent of the emissions: at      *)
(* every step of the loop, whatever the graph holds, to_uri of each entity  *)
(* is what it was before the loop started; for every kind other than Subnet *)
(* and VLAN it is the node of the nominal id, verbatim; the value to_rdf    *)
(* returns is that node; and once an entity has been emitted the node is    *)
(* the subject of its label, and every triple the emission added has the    *)
(* node as its subject, or as its object (an inverse), or is a triple of an *)
(* AddressAssignment the entity holds.                                      *)
(***************************************************************************)
C30_Identity ==
    /\ \A k \in EntityIds :
            LET entity == objects[k]
            IN  /\ NodeOf(entity) = NodeOf(Universe[k])
                /\ KindOf(entity) \notin {"Subnet", "VLAN"} => NodeOf(entity) = EX(entity.id)
                /\ to_rdf_returns(entity) = NodeOf(entity)
    /\ \A k \in Processed :
            \E t \in graph : t[1] = to_rdf_returns(objects[k]) /\ t[2] = RDFS_label
    /\ pc = 2 =>
            LET entity == objects[entities[1]]
                uri == to_rdf_returns(entity)
            IN  \A t \in graph \ StartGraph :
                    t[1] = uri \/ t[3] = uri \/ t[1] \in NestedNodes(entity)

\* the Subnet with the id IrrelevantID, emitted after the Iface R1_Eth0 and
\* the Router R1: its triples are on the node of its CIDR, which to_rdf
\* returned
C30_Witness ==
    /\ Done
    /\ entities = <<8, 13, 2>>
    /\ to_rdf_returns(objects[2]) = EX("Subnet_10_8")
    /\ <<EX("Subnet_10_8"), RDFS_label, Literal("Subnet 10/8")>> \in graph
    /\ EX("IrrelevantID") \notin Subjects

====
